---- MODULE Spec2Model ----
(***************************************************************************)
(* State-machine model of the Stigmergic Blackboard (SBP) server:          *)
(*   - the Blackboard core (blackboard.ts): pheromone store, emit with     *)
(*     merge strategies, evaporate, gc, the scent table, the trigger       *)
(*     handler table and the setInterval evaluation loop;                  *)
(*   - the decay functions (decay.ts);                                     *)
(*   - the condition evaluator (conditions.ts);                            *)
(*   - the HTTP/SSE transport (server.ts): sessions, SSE clients,          *)
(*     subscribe / unsubscribe and trigger fan-out.                        *)
(*                                                                         *)
(* Numbers.  Intensities are IEEE doubles in the code.  The model uses     *)
(* fixed point: the integer x stands for x / Scale.  Scale is a power of   *)
(* two times four, and every emitted intensity is a multiple of Scale/4,   *)
(* so every value the model computes (halving per half-life, sums, max)    *)
(* is a dyadic rational that the fixed point holds exactly within MaxTime. *)
(* Time is the value of Date.now() in model units; the exponential decay   *)
(* inputs use a half-life of one unit, so 0.5^(elapsed/half_life) is an    *)
(* exact halving per unit.                                                 *)
(***************************************************************************)
EXTENDS Integers, Sequences, FiniteSets, TLC

VARIABLES
    since,              \* what the callers have seen: the latest emit, the trails cleared by evaporate, the emit calls of the history window
    clock,              \* Date.now()
    heap,               \* the Pheromone objects still referenced, by id
    store,              \* Blackboard.pheromones: ids of the Map, in insertion order
    emissionHistory,    \* Blackboard.emissionHistory
    trackEmissionHistory, \* options.trackEmissionHistory
    scents,             \* Blackboard.scents: scent_id -> Scent
    scentOrder,         \* insertion order of Blackboard.scents, deleted entries kept as holes
    triggerHandlers,    \* Blackboard.triggerHandlers: scent_id -> handler
    evaluationTimer,    \* Blackboard.evaluationTimer is set
    intervals,          \* the interval timers that setInterval created and clearInterval has not cleared
    lastTickAt,         \* Date.now() of the latest timer callback
    ticks,              \* evaluateScents() invocations suspended at "await this.dispatchTrigger"
    sseClients,         \* SbpServer.sseClients: the SSEClient records, in insertion order
    subscribed,         \* the <<session, scent>> pairs bound by sbp/subscribe and not undone by that session's sbp/unsubscribe
    sessions,           \* SbpServer.sessions (ids)
    eventCounter,       \* SbpServer.eventCounter
    wire,               \* what each open SSE connection has carried: client id -> events written
    owed,               \* per SSE client opened with Last-Event-ID: the triggers its session missed before
    lastOp,             \* the latest core operation: its parameters, result and the state before it
    fireLog,            \* per scent: triggered_at of each trigger since its registration
    evalLog,            \* per scent: now and result of each condition evaluation since its registration
    obs,                \* per scent: now and the condition on the live store at each timer callback since its registration
    due,                \* per SSE client: the triggers fired for scents its session had subscribed to, while it was open
    missed,             \* per session: the last event id its stream carried, and the triggers of its subscribed scents fired since it has no open stream
    reply,              \* the reply to the latest HTTP request: status, Sbp-Session-Id header, JSON-RPC error code
    buckets,            \* the rate limiter's buckets: agent key -> TokenBucket
    options             \* the options the server and its hooks were created with

vars == <<since, clock, heap, store, emissionHistory, trackEmissionHistory, scents, scentOrder,
          triggerHandlers, evaluationTimer, intervals, lastTickAt, ticks, sseClients,
          subscribed, sessions, eventCounter, wire, owed, lastOp, fireLog, evalLog, obs, due, missed,
          reply, buckets, options>>

coreVars == <<heap, store, emissionHistory>>
scentVars == <<scents, scentOrder, fireLog, evalLog, obs>>
loopVars == <<evaluationTimer, intervals, lastTickAt, ticks>>
sseVars == <<sseClients, subscribed, sessions, eventCounter, wire, owed, due, missed>>
streamVars == <<eventCounter, wire, owed, due, missed>>
httpVars == <<reply, buckets, options>>

----------------------------------------------------------------------------
(* Bounds of the model *)

MaxTime == 3
MaxIds == 3
MaxHistory == 3
MaxOrder == 3
MaxTicks == 2
MaxClients == 2
MaxEvents == 4

(* Options of the Blackboard, in model units *)
maxPheromones == 2
emissionHistoryWindow == 2
MaxUuids == 2
MaxWait == 12

(* defaultTtlFloor = 0.01 = TtlFloorNum / TtlFloorDen *)
TtlFloorNum == 1
TtlFloorDen == 100

Scale == 4 * (2 ^ MaxTime)
Quarter == Scale \div 4

Max2(a, b) == IF a >= b THEN a ELSE b
Min2(a, b) == IF a <= b THEN a ELSE b
SetMax(S) == CHOOSE x \in S : \A y \in S : y <= x
SetMin(S) == CHOOSE x \in S : \A y \in S : x <= y

----------------------------------------------------------------------------
(* Payloads.  A payload in the state is a name; PayloadTree gives the JSON *)
(* object it names.  A JSON object is [keys, vals] with keys in property   *)
(* order; a value is [t |-> "num", n] or [t |-> "obj", keys, vals].        *)

Num(n) == [t |-> "num", n |-> n]
Obj(ks, vs) == [t |-> "obj", keys |-> ks, vals |-> vs]

PayloadNames == {"empty", "k1", "k2", "n1", "n2", "jk", "kj"}

PayloadTree(p) ==
    CASE p = "empty" -> Obj(<<>>, <<>>)
      [] p = "k1" -> Obj(<<"k">>, <<Num(1)>>)
      [] p = "k2" -> Obj(<<"k">>, <<Num(2)>>)
      [] p = "n1" -> Obj(<<"k">>, <<Obj(<<"n">>, <<Num(1)>>)>>)
      [] p = "n2" -> Obj(<<"k">>, <<Obj(<<"n">>, <<Num(2)>>)>>)
      [] p = "jk" -> Obj(<<"j", "k">>, <<Num(1), Num(2)>>)
      [] p = "kj" -> Obj(<<"k", "j">>, <<Num(2), Num(1)>>)

(* String order of the property names the payloads use *)
KeyRank(k) == CASE k = "j" -> 1 [] k = "k" -> 2 [] k = "n" -> 3

RECURSIVE SortKeys(_)
(* Object.keys(payload).sort() *)
SortKeys(S) ==
    IF S = {} THEN <<>>
    ELSE LET k == CHOOSE x \in S : \A y \in S : KeyRank(x) <= KeyRank(y)
         IN <<k>> \o SortKeys(S \ {k})

SeqRange(s) == {s[i] : i \in 1..Len(s)}

RECURSIVE Stringify(_, _)
RECURSIVE StringifyProps(_, _, _)
(* JSON.stringify(value, replacerArray): at every level only the           *)
(* properties named in the replacer array are written, in the array order. *)
(* The text is a sequence of tokens: -1 and -2 are the braces, 10 + rank a *)
(* property name, 100 + n the number n.                                    *)
Stringify(v, replacer) ==
    IF v.t = "num" THEN <<100 + v.n>>
    ELSE <<-1>> \o StringifyProps(v, replacer, 1) \o <<-2>>
StringifyProps(v, replacer, i) ==
    IF i > Len(replacer) THEN <<>>
    ELSE LET at == {j \in 1..Len(v.keys) : v.keys[j] = replacer[i]}
         IN (IF at = {} THEN <<>>
             ELSE <<10 + KeyRank(replacer[i])>> \o Stringify(v.vals[SetMin(at)], replacer))
            \o StringifyProps(v, replacer, i + 1)

(* hashPayload: the digest is taken as collision free, so it is modelled   *)
(* by the string it digests.                                               *)
hashPayload(p) ==
    LET tree == PayloadTree(p)
    IN Stringify(tree, SortKeys(SeqRange(tree.keys)))

----------------------------------------------------------------------------
(* Decay (decay.ts) *)

Exponential(h) == [type |-> "exponential", half_life_ms |-> h, rate_per_ms |-> 0, steps |-> <<>>]
Linear(r) == [type |-> "linear", half_life_ms |-> 0, rate_per_ms |-> r, steps |-> <<>>]
Step(st) == [type |-> "step", half_life_ms |-> 0, rate_per_ms |-> 0, steps |-> st]
Immortal == [type |-> "immortal", half_life_ms |-> 0, rate_per_ms |-> 0, steps |-> <<>>]

(* defaultDecay(): half-life of five minutes, one model unit *)
defaultDecay == Exponential(1)

(* x * Math.pow(0.5, elapsed / halfLife), for elapsed a multiple of halfLife *)
HalfPow(x, elapsed, halfLife) == x \div (2 ^ (elapsed \div halfLife))

(* computeIntensity with the linear model adding the decayed amount *)
GrowingIntensity(p, now) ==
    LET elapsed == now - p.last_reinforced_at
        dm == p.decay_model
    IN IF elapsed <= 0 \/ dm.type # "linear" THEN p.initial_intensity
       ELSE Min2(Scale, p.initial_intensity + dm.rate_per_ms * elapsed)

computeIntensity(p, now) ==
    LET elapsed == now - p.last_reinforced_at
        dm == p.decay_model
    IN IF elapsed <= 0 THEN p.initial_intensity
       ELSE CASE dm.type = "exponential" -> HalfPow(p.initial_intensity, elapsed, dm.half_life_ms)
              [] dm.type = "linear" -> Max2(0, p.initial_intensity - dm.rate_per_ms * elapsed)
              [] dm.type = "step" ->
                    LET hit == {i \in 1..Len(dm.steps) : elapsed >= dm.steps[i].at_ms}
                    IN IF hit = {} THEN p.initial_intensity ELSE dm.steps[SetMax(hit)].intensity
              [] dm.type = "immortal" -> p.initial_intensity
              [] OTHER -> 0

(* intensity < ttl_floor, with ttl_floor = floorNum / TtlFloorDen *)
BelowFloor(x, floorNum) == x * TtlFloorDen < floorNum * Scale

isEvaporated(p, now) == BelowFloor(computeIntensity(p, now), p.ttl_floor)

----------------------------------------------------------------------------
(* Blackboard.emit (blackboard.ts) *)

MergeStrategies == {"reinforce", "replace", "max", "add", "new"}

(* the input intensity taken as it comes *)
Unclamped(intensity) == intensity

(* Math.max(0, Math.min(1, intensity)) *)
clampedIntensity(intensity) == Max2(0, Min2(Scale, intensity))

(* a history that is never pruned *)
Unpruned(hist, now) == hist

(* pruneEmissionHistory *)
pruneEmissionHistory(hist, now) ==
    SelectSeq(hist, LAMBDA e : e.timestamp >= now - emissionHistoryWindow)

(* the history after emit's push and prune *)
TrackedHistory(params, now) ==
    IF trackEmissionHistory
    THEN pruneEmissionHistory(
            Append(emissionHistory,
                   [trail |-> params.trail, type |-> params.type, timestamp |-> now]), now)
    ELSE emissionHistory

(* a lookup that compares the payloads themselves, not their hashes *)
FindByPayload(params, now) ==
    LET hit == {i \in 1..Len(store) :
                  /\ heap[store[i]].trail = params.trail
                  /\ heap[store[i]].type = params.type
                  /\ heap[store[i]].payload = params.payload
                  /\ ~isEvaporated(heap[store[i]], now)}
    IN IF params.merge_strategy = "new" \/ hit = {} THEN 0 ELSE store[SetMin(hit)]

(* the merge lookup: the first pheromone of the Map, in iteration order,   *)
(* with the trail, the type and the payload hash, and not evaporated; 0    *)
(* when there is none or the strategy is "new"                             *)
FindExisting(params, now) ==
    LET hit == {i \in 1..Len(store) :
                  /\ heap[store[i]].trail = params.trail
                  /\ heap[store[i]].type = params.type
                  /\ hashPayload(heap[store[i]].payload) = hashPayload(params.payload)
                  /\ ~isEvaporated(heap[store[i]], now)}
    IN IF params.merge_strategy = "new" \/ hit = {} THEN 0 ELSE store[SetMin(hit)]

(* the merge switch with "max" and "add" reading the stored intensity      *)
(* instead of the decayed one                                              *)
MergeIntoStored(existing, params, now) ==
    LET clamped == clampedIntensity(params.intensity)
        ms == params.merge_strategy
    IN CASE ms = "reinforce" ->
              [existing EXCEPT !.initial_intensity = clamped, !.last_reinforced_at = now]
         [] ms = "replace" ->
              [existing EXCEPT !.initial_intensity = clamped, !.last_reinforced_at = now,
                               !.payload = params.payload, !.tags = params.tags,
                               !.source_agent = IF params.source_agent # "undefined"
                                                THEN params.source_agent ELSE @]
         [] ms = "max" ->
              [existing EXCEPT !.initial_intensity = Max2(existing.initial_intensity, clamped),
                               !.last_reinforced_at = now]
         [] ms = "add" ->
              [existing EXCEPT !.initial_intensity =
                                   Min2(Scale, existing.initial_intensity + clamped),
                               !.last_reinforced_at = now]
         [] OTHER -> existing

(* a merge that also takes the decay model of the emit *)
MergeTakingDecay(existing, params, now) ==
    [MergeIntoStored(existing, params, now) EXCEPT !.decay_model = params.decay]

(* the merge switch: the existing pheromone after the merge *)
MergeInto(existing, params, now) ==
    LET previousIntensity == computeIntensity(existing, now)
        clamped == clampedIntensity(params.intensity)
        ms == params.merge_strategy
    IN CASE ms = "reinforce" ->
              [existing EXCEPT !.initial_intensity = clamped, !.last_reinforced_at = now]
         [] ms = "replace" ->
              [existing EXCEPT !.initial_intensity = clamped, !.last_reinforced_at = now,
                               !.payload = params.payload, !.tags = params.tags,
                               !.source_agent = IF params.source_agent # "undefined"
                                                THEN params.source_agent ELSE @]
         [] ms = "max" ->
              [existing EXCEPT !.initial_intensity = Max2(previousIntensity, clamped),
                               !.last_reinforced_at = now]
         [] ms = "add" ->
              [existing EXCEPT !.initial_intensity = Min2(Scale, previousIntensity + clamped),
                               !.last_reinforced_at = now]
         [] OTHER -> existing

MergeAction(ms) ==
    CASE ms = "reinforce" -> "reinforced"
      [] ms = "replace" -> "replaced"
      [] ms = "max" -> "merged"
      [] ms = "add" -> "merged"
      [] OTHER -> "reinforced"

(* an id generator that reuses the id of the newest pheromone of the Map *)
StaleId == IF store = <<>> THEN 1 ELSE store[Len(store)]

(* uuidv4(): an id no referenced object has.  The model names a new object *)
(* with the least id that no object of the Map or of a tick's snapshot has. *)
FreshId == SetMin((1..(MaxIds + 1)) \ DOMAIN heap)

(* the objects still referenced: by the Map or by the snapshot of a        *)
(* suspended evaluateScents()                                              *)
Referenced(hp, st, tks) ==
    LET keep == SeqRange(st) \cup UNION {SeqRange(t.pheromones) : t \in tks}
    IN [id \in (DOMAIN hp) \cap keep |-> hp[id]]

(* no object: the value of "existing" when the lookup finds nothing *)
NoPheromone ==
    [id |-> 0, trail |-> "", type |-> "", emitted_at |-> 0, last_reinforced_at |-> 0,
     initial_intensity |-> 0, decay_model |-> Immortal, payload |-> "empty",
     source_agent |-> "undefined", tags |-> {}, ttl_floor |-> 0]

NewPheromone(id, params, now) ==
    [id |-> id, trail |-> params.trail, type |-> params.type,
     emitted_at |-> now, last_reinforced_at |-> now,
     initial_intensity |-> clampedIntensity(params.intensity),
     decay_model |-> params.decay, payload |-> params.payload,
     source_agent |-> params.source_agent, tags |-> params.tags,
     ttl_floor |-> TtlFloorNum]

(* gc(): the Map without its evaporated pheromones *)
GcStore(st, hp, now) == SelectSeq(st, LAMBDA id : ~isEvaporated(hp[id], now))

(* an insert that never collects *)
KeptAfterInsert(st, hp, now) == st

(* "if (this.pheromones.size > this.options.maxPheromones) this.gc()" *)
StoreAfterInsert(st, hp, now) ==
    IF Len(st) > maxPheromones THEN GcStore(st, hp, now) ELSE st

(* what the caller of an emit keeps: the intensity and the strategy it     *)
(* passed and the EmitResult it got                                        *)
NoEmitSeen == [pheromone_id |-> 0, intensity |-> 0, merge_strategy |-> "", new_intensity |-> 0]

EmitSeen(params, result) ==
    [pheromone_id |-> result.pheromone_id, intensity |-> params.intensity,
     merge_strategy |-> params.merge_strategy, new_intensity |-> result.new_intensity]

(* the emit calls made while the history is tracked, as their callers      *)
(* count them: the call (trail, type, now) after the earlier calls, of     *)
(* which those made more than emissionHistoryWindow before it are          *)
(* forgotten                                                               *)
CallsSeen(calls, params, now) ==
    IF trackEmissionHistory
    THEN Append(SelectSeq(calls, LAMBDA c : now - c.at <= emissionHistoryWindow),
                [trail |-> params.trail, type |-> params.type, at |-> now])
    ELSE calls

(* Blackboard.emit(params) *)
emit(params) ==
    LET now == clock
        ex == FindExisting(params, now)
        hist == TrackedHistory(params, now)
    IN /\ Len(hist) <= MaxHistory
       /\ emissionHistory' = hist
       /\ IF ex # 0
          THEN LET merged == MergeInto(heap[ex], params, now)
               IN /\ heap' = [heap EXCEPT ![ex] = merged]
                  /\ store' = store
                  /\ lastOp' = [op |-> "emit", params |-> params, now |-> now,
                                existing |-> ex, pre_store |-> store, before |-> heap[ex],
                                result |-> [pheromone_id |-> ex,
                                            action |-> MergeAction(params.merge_strategy),
                                            previous_intensity |-> computeIntensity(heap[ex], now),
                                            new_intensity |-> computeIntensity(merged, now)]]
          ELSE LET id == FreshId
                   hp == (id :> NewPheromone(id, params, now)) @@ heap
                   st == StoreAfterInsert(Append(store, id), hp, now)
               IN /\ id <= MaxIds
                  /\ store' = st
                  /\ heap' = Referenced(hp, st, ticks)
                  /\ lastOp' = [op |-> "emit", params |-> params, now |-> now,
                                existing |-> 0, pre_store |-> store, before |-> NoPheromone,
                                result |-> [pheromone_id |-> id, action |-> "created",
                                            previous_intensity |-> -1,
                                            new_intensity |-> clampedIntensity(params.intensity)]]
       /\ since' = [since EXCEPT !.emit = EmitSeen(params, lastOp'.result),
                                  !.cleared = @ \ {params.trail},
                                  !.calls = CallsSeen(@, params, now)]
       /\ UNCHANGED <<clock, trackEmissionHistory, triggerHandlers>>
       /\ UNCHANGED <<scentVars, loopVars>>

(* emit() called on the Blackboard, no request of the transport involved *)
Emit(params) == emit(params) /\ UNCHANGED <<sseVars, httpVars>>

(* matchTags: tags is the pheromone's tag set; an unset filter is NoFilter *)
NoFilter == [any |-> {}, all |-> {}, none |-> {}]

matchTags(tags, filter) ==
    /\ (filter.any # {} => filter.any \cap tags # {})
    /\ (filter.all # {} => filter.all \subseteq tags)
    /\ (filter.none # {} => filter.none \cap tags = {})

(* a match by trail that passes over the pheromones already evaporated *)
EvaporateLive(p, params, now) ==
    /\ ~(params.trail # "undefined" /\ p.trail # params.trail)
    /\ ~isEvaporated(p, now)

(* the filters with older_than_ms keeping the pheromones of exactly that age *)
EvaporateStrictlyOlder(p, params, now) ==
    /\ ~(params.trail # "undefined" /\ p.trail # params.trail)
    /\ ~(params.types # {} /\ p.type \notin params.types)
    /\ ~(params.older_than_ms # -1 /\ now - p.emitted_at <= params.older_than_ms)
    /\ ~(params.below_intensity # -1 /\ computeIntensity(p, now) >= params.below_intensity)
    /\ ~(params.has_tags /\ ~matchTags(p.tags, params.tags))

(* Blackboard.evaporate.  An unset parameter is "undefined" (trail), the   *)
(* empty set (types), -1 (older_than_ms, below_intensity), or has_tags =   *)
(* FALSE.                                                                  *)
EvaporateMatches(p, params, now) ==
    /\ ~(params.trail # "undefined" /\ p.trail # params.trail)
    /\ ~(params.types # {} /\ p.type \notin params.types)
    /\ ~(params.older_than_ms # -1 /\ now - p.emitted_at < params.older_than_ms)
    /\ ~(params.below_intensity # -1 /\ computeIntensity(p, now) >= params.below_intensity)
    /\ ~(params.has_tags /\ ~matchTags(p.tags, params.tags))

(* evaporate({trail: T}): a trail and no other filter *)
ByTrailOnly(params) ==
    /\ params.trail # "undefined"
    /\ params.types = {}
    /\ params.older_than_ms = -1
    /\ params.below_intensity = -1
    /\ ~params.has_tags

(* Blackboard.evaporate(params) *)
evaporate(params) ==
    LET now == clock
        toRemove == {id \in SeqRange(store) : EvaporateMatches(heap[id], params, now)}
        st == SelectSeq(store, LAMBDA id : id \notin toRemove)
    IN /\ store' = st
       /\ heap' = Referenced(heap, st, ticks)
       /\ lastOp' = [op |-> "evaporate", params |-> params, now |-> now,
                     pre_store |-> store,
                     result |-> [evaporated_count |-> Cardinality(toRemove),
                                 trails_affected |-> {heap[id].trail : id \in toRemove}]]
       /\ since' = [since EXCEPT !.cleared = IF ByTrailOnly(params) THEN @ \cup {params.trail} ELSE @]
       /\ UNCHANGED <<clock, emissionHistory, trackEmissionHistory, triggerHandlers>>
       /\ UNCHANGED <<scentVars, loopVars>>

(* evaporate() called on the Blackboard *)
Evaporate(params) == evaporate(params) /\ UNCHANGED <<sseVars, httpVars>>

(* Blackboard.gc(), called from outside *)
Gc ==
    /\ store' = GcStore(store, heap, clock)
    /\ heap' = Referenced(heap, store', ticks)
    /\ lastOp' = [op |-> "gc", now |-> clock, pre_store |-> store,
                  result |-> Len(store) - Len(store')]
    /\ UNCHANGED <<clock, emissionHistory, trackEmissionHistory, since, httpVars, triggerHandlers>>
    /\ UNCHANGED <<scentVars, loopVars, sseVars>>

(* Time passes *)
Advance ==
    /\ clock < MaxTime
    /\ clock' = clock + 1
    /\ lastOp' = [op |-> "advance"]
    /\ UNCHANGED <<coreVars, trackEmissionHistory, since, httpVars, triggerHandlers>>
    /\ UNCHANGED <<scentVars, loopVars, sseVars>>

----------------------------------------------------------------------------
(* Blackboard.sniff (blackboard.ts) and createSnapshot (conditions.ts).    *)
(* An unset parameter is the empty set (trails, types; an empty array acts *)
(* the same), -1 (max_age_ms) or has_tags = FALSE; min_intensity, limit    *)
(* and include_evaporated carry their defaults.                            *)

DefaultLimit == 100

SniffParams(trails, types, min_intensity, max_age_ms, limit, include_evaporated) ==
    [trails |-> trails, types |-> types, min_intensity |-> min_intensity,
     max_age_ms |-> max_age_ms, has_tags |-> FALSE, tags |-> NoFilter,
     limit |-> limit, include_evaporated |-> include_evaporated]

createSnapshot(p, now) ==
    [id |-> p.id, trail |-> p.trail, type |-> p.type,
     current_intensity |-> computeIntensity(p, now), payload |-> p.payload,
     age_ms |-> now - p.emitted_at, tags |-> p.tags]

(* the chain of "continue" tests in the loop of sniff *)
SniffPasses(p, params, now) ==
    LET intensity == computeIntensity(p, now)
    IN /\ ~(params.trails # {} /\ p.trail \notin params.trails)
       /\ ~(params.types # {} /\ p.type \notin params.types)
       /\ ~(~params.include_evaporated /\ BelowFloor(intensity, p.ttl_floor))
       /\ ~(intensity < params.min_intensity)
       /\ ~(params.max_age_ms # -1 /\ now - p.emitted_at > params.max_age_ms)
       /\ ~(params.has_tags /\ ~matchTags(p.tags, params.tags))

(* the results left in the order of the Map *)
MapOrder(results) == results

RECURSIVE SortDescending(_)
(* results.sort((a, b) => b.current_intensity - a.current_intensity): the  *)
(* sort is stable, equal intensities keep the order of the Map             *)
SortDescending(results) ==
    IF results = <<>> THEN <<>>
    ELSE LET top == SetMax({results[i].current_intensity : i \in 1..Len(results)})
             i == SetMin({k \in 1..Len(results) : results[k].current_intensity = top})
         IN <<results[i]>> \o
            SortDescending(SubSeq(results, 1, i - 1) \o SubSeq(results, i + 1, Len(results)))

(* Array.prototype.slice(0, limit); a negative limit counts from the end *)
SliceTo(results, limit) ==
    IF limit >= 0 THEN SubSeq(results, 1, Min2(limit, Len(results)))
    ELSE SubSeq(results, 1, Max2(0, Len(results) + limit))

(* the key `${p.trail}/${p.type}` *)
AggregateKey(p) == <<p.trail, p.type>>

RECURSIVE Aggregate(_, _)
(* the aggregates Map after the loop over the passing pheromones ps, from  *)
(* the Map aggs: count, sum and max per key                                *)
Aggregate(ps, aggs) ==
    IF ps = <<>> THEN aggs
    ELSE LET p == Head(ps)
             key == AggregateKey(p)
             agg == IF key \in DOMAIN aggs THEN aggs[key] ELSE [count |-> 0, sum |-> 0, max |-> 0]
             upd == [count |-> agg.count + 1, sum |-> agg.sum + p.current_intensity,
                     max |-> Max2(agg.max, p.current_intensity)]
         IN Aggregate(Tail(ps), [k \in DOMAIN aggs \cup {key} |-> IF k = key THEN upd ELSE aggs[k]])

(* agg.sum / agg.count, kept as the fraction *)
Quotient(sum, count) == [num |-> sum, den |-> count]

sniff(params, now) ==
    LET passing == SelectSeq(store, LAMBDA id : SniffPasses(heap[id], params, now))
        results == [i \in 1..Len(passing) |-> createSnapshot(heap[passing[i]], now)]
        aggregates == Aggregate(results, <<>>)
    IN [timestamp |-> now,
        pheromones |-> SliceTo(SortDescending(results), params.limit),
        aggregates |-> [key \in DOMAIN aggregates |->
                          [count |-> aggregates[key].count,
                           sum_intensity |-> aggregates[key].sum,
                           max_intensity |-> aggregates[key].max,
                           avg_intensity |-> IF aggregates[key].count > 0
                                             THEN Quotient(aggregates[key].sum, aggregates[key].count)
                                             ELSE Quotient(0, 1)]]]

(* a call of Blackboard.sniff(params): the state is only read *)
sniffed(params) ==
    /\ lastOp' = [op |-> "sniff", params |-> params, now |-> clock,
                  result |-> sniff(params, clock)]
    /\ UNCHANGED <<clock, coreVars, trackEmissionHistory, since, triggerHandlers>>
    /\ UNCHANGED <<scentVars, loopVars>>

(* sniff() called on the Blackboard *)
Sniff(params) == sniffed(params) /\ UNCHANGED <<sseVars, httpVars>>

----------------------------------------------------------------------------
(* Condition evaluation (conditions.ts).  A value compared with an         *)
(* intensity aggregate is in fixed point; count and any are plain numbers  *)
(* in the code and are scaled here, with the condition's value.            *)

Threshold(trail, signal_type, aggregation, operator, value) ==
    [type |-> "threshold", trail |-> trail, signal_type |-> signal_type,
     has_tags |-> FALSE, tags |-> NoFilter,
     aggregation |-> aggregation, operator |-> operator, value |-> value]

compare(a, op, b) ==
    CASE op = ">=" -> a >= b
      [] op = ">" -> a > b
      [] op = "<=" -> a <= b
      [] op = "<" -> a < b
      [] op = "==" -> a = b
      [] op = "!=" -> a # b
      [] OTHER -> FALSE

RECURSIVE SumSeq(_)
SumSeq(s) == IF s = <<>> THEN 0 ELSE Head(s) + SumSeq(Tail(s))

(* a filter that lets the evaporated pheromones through *)
MatchesEvaporated(p, condition, now) ==
    /\ p.trail = condition.trail
    /\ (condition.signal_type = "*" \/ p.type = condition.signal_type)
    /\ (condition.has_tags => matchTags(p.tags, condition.tags))

(* the callback of "pheromones.filter" in evaluateThreshold *)
Matches(p, condition, now) ==
    /\ p.trail = condition.trail
    /\ (condition.signal_type = "*" \/ p.type = condition.signal_type)
    /\ ~isEvaporated(p, now)
    /\ (condition.has_tags => matchTags(p.tags, condition.tags))

(* evaluateThreshold over the snapshot array "pheromones" (object ids).    *)
(* The value is kept as a fraction, so that the average is exact, and is   *)
(* compared as one.                                                        *)
evaluateThreshold(condition, pheromones, now) ==
    LET matching == SelectSeq(pheromones, LAMBDA id : Matches(heap[id], condition, now))
        intensities == [i \in 1..Len(matching) |-> computeIntensity(heap[matching[i]], now)]
        n == Len(matching)
        aggValue ==
            CASE condition.aggregation = "sum" -> Quotient(SumSeq(intensities), 1)
              [] condition.aggregation = "max" ->
                    Quotient(IF n > 0 THEN SetMax(SeqRange(intensities)) ELSE 0, 1)
              [] condition.aggregation = "avg" ->
                    IF n > 0 THEN Quotient(SumSeq(intensities), n) ELSE Quotient(0, 1)
              [] condition.aggregation = "count" -> Quotient(n * Scale, 1)
              [] condition.aggregation = "any" -> Quotient(IF n > 0 THEN Scale ELSE 0, 1)
              [] OTHER -> Quotient(0, 1)
    IN [met |-> compare(aggValue.num, condition.operator, condition.value * aggValue.den),
        value |-> aggValue, matchingPheromoneIds |-> matching]

Composite(operator, conditions) ==
    [type |-> "composite", operator |-> operator, conditions |-> conditions]

Rate(trail, signal_type, metric, window_ms, operator, value) ==
    [type |-> "rate", trail |-> trail, signal_type |-> signal_type, metric |-> metric,
     window_ms |-> window_ms, operator |-> operator, value |-> value]

(* a pattern condition; "ordered" unset is Pattern(sequence, window_ms, TRUE) *)
Pattern(sequence, window_ms, ordered) ==
    [type |-> "pattern", sequence |-> sequence, window_ms |-> window_ms, ordered |-> ordered]

PatternStep(trail, signal_type) == [trail |-> trail, signal_type |-> signal_type]

RECURSIVE Distinct(_)
(* [...new Set(ids)]: the first occurrence of every id, in order *)
Distinct(ids) ==
    IF ids = <<>> THEN <<>>
    ELSE LET front == Distinct(SubSeq(ids, 1, Len(ids) - 1))
             last == ids[Len(ids)]
         IN IF last \in SeqRange(front) THEN front ELSE Append(front, last)

RECURSIVE Flat(_, _)
(* results.flatMap((r) => r.matchingPheromoneIds), from result i on *)
Flat(results, i) ==
    IF i > Len(results) THEN <<>>
    ELSE results[i].matchingPheromoneIds \o Flat(results, i + 1)

(* a switch that takes "or" for "and" *)
OrAsAnd(operator, results) ==
    CASE operator \in {"and", "or"} -> \A i \in 1..Len(results) : results[i].met
      [] operator = "not" -> ~results[1].met
      [] OTHER -> FALSE

(* the switch over condition.operator in evaluateComposite *)
CompositeMet(operator, results) ==
    CASE operator = "and" -> \A i \in 1..Len(results) : results[i].met
      [] operator = "or" -> \E i \in 1..Len(results) : results[i].met
      [] operator = "not" -> ~results[1].met
      [] OTHER -> FALSE

(* the history a rate or pattern condition looks at: not filtered by time *)
WholeHistory(history, now, window_ms) == history

(* "emissionHistory.filter((e) => e.timestamp >= windowStart)" *)
InWindow(history, now, window_ms) ==
    SelectSeq(history, LAMBDA e : e.timestamp >= now - window_ms)

(* evaluateRate.  emissions_per_second is count / (window_ms / 1000), kept *)
(* as the fraction count * 1000 / window_ms; window_ms is in model units   *)
evaluateRate(condition, history, now) ==
    LET relevantEmissions ==
            SelectSeq(InWindow(history, now, condition.window_ms), LAMBDA e :
                /\ e.trail = condition.trail
                /\ (condition.signal_type = "*" \/ e.type = condition.signal_type))
        value == IF condition.metric = "emissions_per_second"
                 THEN Quotient(Len(relevantEmissions) * 1000, condition.window_ms)
                 ELSE Quotient(Len(relevantEmissions), 1)
    IN [met |-> compare(value.num, condition.operator, condition.value * value.den),
        value |-> value, matchingPheromoneIds |-> <<>>]

(* "emission.trail === step.trail && emission.type === step.signal_type" *)
StepMatches(emission, step) == emission.trail = step.trail /\ emission.type = step.signal_type

(* an ordered scan that looks for every step from the start of the history *)
ScanFromStart(sequence, relevant, k, searchFrom) ==
    Cardinality({j \in k..Len(sequence) :
                    \A l \in k..j : \E i \in 1..Len(relevant) : StepMatches(relevant[i], sequence[l])})

RECURSIVE ScanOrdered(_, _, _, _)
(* the ordered loop of evaluatePattern from step k on, searching from      *)
(* index searchFrom: the steps it matches before the first that it cannot  *)
ScanOrdered(sequence, relevant, k, searchFrom) ==
    IF k > Len(sequence) THEN 0
    ELSE LET hits == {i \in searchFrom..Len(relevant) : StepMatches(relevant[i], sequence[k])}
         IN IF hits = {} THEN 0
            ELSE 1 + ScanOrdered(sequence, relevant, k + 1, SetMin(hits) + 1)

RECURSIVE ScanUnordered(_, _, _)
(* the unordered loop of evaluatePattern from step k on: every step takes  *)
(* the first record left that matches it                                   *)
ScanUnordered(sequence, remaining, k) ==
    IF k > Len(sequence) THEN 0
    ELSE LET hits == {i \in 1..Len(remaining) : StepMatches(remaining[i], sequence[k])}
         IN IF hits = {} THEN ScanUnordered(sequence, remaining, k + 1)
            ELSE LET idx == SetMin(hits)
                 IN 1 + ScanUnordered(sequence,
                                      SubSeq(remaining, 1, idx - 1)
                                          \o SubSeq(remaining, idx + 1, Len(remaining)),
                                      k + 1)

(* evaluatePattern; the value matchCount / sequence.length is kept as the  *)
(* fraction                                                                *)
evaluatePattern(condition, history, now) ==
    LET sequence == condition.sequence
        relevant == InWindow(history, now, condition.window_ms)
        matchCount == IF condition.ordered THEN ScanOrdered(sequence, relevant, 1, 1)
                      ELSE ScanUnordered(sequence, relevant, 1)
    IN IF Len(relevant) = 0 \/ Len(sequence) = 0
       THEN [met |-> FALSE, value |-> Quotient(0, 1), matchingPheromoneIds |-> <<>>]
       ELSE [met |-> matchCount = Len(sequence),
             value |-> Quotient(matchCount, Len(sequence)),
             matchingPheromoneIds |-> <<>>]

RECURSIVE evaluateCondition(_, _, _)

(* evaluateComposite; the value is the number of children that are met *)
evaluateComposite(condition, pheromones, now) ==
    IF Len(condition.conditions) = 0
    THEN [met |-> FALSE, value |-> Quotient(0, 1), matchingPheromoneIds |-> <<>>]
    ELSE LET results == [i \in 1..Len(condition.conditions) |->
                            evaluateCondition(condition.conditions[i], pheromones, now)]
         IN [met |-> CompositeMet(condition.operator, results),
             value |-> Quotient(Cardinality({i \in 1..Len(results) : results[i].met}), 1),
             matchingPheromoneIds |-> Distinct(Flat(results, 1))]

(* evaluateCondition with the context { pheromones, now, emissionHistory: *)
(* this.emissionHistory }                                                  *)
evaluateCondition(condition, pheromones, now) ==
    CASE condition.type = "threshold" -> evaluateThreshold(condition, pheromones, now)
      [] condition.type = "composite" -> evaluateComposite(condition, pheromones, now)
      [] condition.type = "rate" -> evaluateRate(condition, emissionHistory, now)
      [] condition.type = "pattern" -> evaluatePattern(condition, emissionHistory, now)
      [] OTHER -> [met |-> FALSE, value |-> Quotient(0, 1), matchingPheromoneIds |-> <<>>]

----------------------------------------------------------------------------
(* Scents (blackboard.ts) *)

ScentIds == {"q1", "q2"}

(* a deleted entry of the scents Map, still under a live iterator *)
Hole == ""

(* a Map whose delete has no effect *)
Unremoved(f, k) == f

(* the value of a Map with key k removed *)
Without(f, k) == [x \in (DOMAIN f) \ {k} |-> f[x]]

(* the insertion order of the scents Map.  An iterator steps over deleted  *)
(* entries; when no evaluateScents() is suspended no iterator is alive and *)
(* the deleted entries are dropped.                                        *)
Compact(order, tks) ==
    IF tks = {} THEN SelectSeq(order, LAMBDA x : x # Hole) ELSE order

(* the tables a register/deregister round trip is compared on *)
Tables ==
    [scents |-> scents, triggerHandlers |-> triggerHandlers, store |-> store,
     emissionHistory |-> emissionHistory]

(* the registration of sid that the latest operation was, or that the      *)
(* latest operation (an onTrigger for sid) directly followed: its status   *)
(* and, for a first registration, the tables before it                     *)
NoRound == [status |-> "none", pre |-> [scents |-> <<>>, triggerHandlers |-> <<>>,
                                         store |-> <<>>, emissionHistory |-> <<>>]]

Round(sid) ==
    IF lastOp.op = "register_scent" /\ lastOp.scent_id = sid
    THEN [status |-> lastOp.status, pre |-> lastOp.pre]
    ELSE IF lastOp.op = "on_trigger" /\ lastOp.scent_id = sid THEN lastOp.round
    ELSE NoRound

(* a re-registration that keeps the runtime fields of the stored scent *)
KeptScent(params) ==
    LET known == params.scent_id \in DOMAIN scents
    IN [scent_id |-> params.scent_id, agent_endpoint |-> params.agent_endpoint,
        condition |-> params.condition, cooldown_ms |-> params.cooldown_ms,
        trigger_mode |-> params.trigger_mode,
        last_triggered_at |-> IF known THEN scents[params.scent_id].last_triggered_at ELSE 0,
        last_condition_met |-> IF known THEN scents[params.scent_id].last_condition_met ELSE FALSE]

(* the Scent that registerScent builds: the params, last_triggered_at null *)
(* and last_condition_met false                                            *)
NewScent(params) ==
    [scent_id |-> params.scent_id, agent_endpoint |-> params.agent_endpoint,
     condition |-> params.condition, cooldown_ms |-> params.cooldown_ms,
     trigger_mode |-> params.trigger_mode,
     last_triggered_at |-> 0,      \* null
     last_condition_met |-> FALSE]

registerScent(params) ==
    LET sid == params.scent_id
        isUpdate == sid \in DOMAIN scents
        order == IF isUpdate THEN scentOrder ELSE Append(scentOrder, sid)
    IN /\ Len(order) <= MaxOrder
       /\ scents' = (sid :> NewScent(params)) @@ scents
       /\ scentOrder' = order
       /\ fireLog' = (sid :> <<>>) @@ fireLog
       /\ evalLog' = (sid :> <<>>) @@ evalLog
       /\ obs' = (sid :> <<>>) @@ obs
       /\ lastOp' = [op |-> "register_scent", scent_id |-> sid,
                     status |-> IF isUpdate THEN "updated" ELSE "registered",
                     met |-> evaluateCondition(params.condition, store, clock).met,
                     pre |-> IF isUpdate THEN NoRound.pre ELSE Tables]

deregisterScent(sid) ==
    IF sid \in DOMAIN scents
    THEN /\ scents' = Without(scents, sid)
         /\ triggerHandlers' = Without(triggerHandlers, sid)
         /\ scentOrder' = Compact([i \in 1..Len(scentOrder) |->
                                     IF scentOrder[i] = sid THEN Hole ELSE scentOrder[i]], ticks)
         /\ fireLog' = Without(fireLog, sid)
         /\ evalLog' = Without(evalLog, sid)
         /\ obs' = Without(obs, sid)
         /\ lastOp' = [op |-> "deregister_scent", scent_id |-> sid, status |-> "deregistered",
                       round |-> Round(sid)]
    ELSE /\ lastOp' = [op |-> "deregister_scent", scent_id |-> sid, status |-> "not_found",
                       round |-> Round(sid)]
         /\ UNCHANGED <<scentVars, triggerHandlers>>

RegisterScent(params) ==
    /\ registerScent(params)
    /\ UNCHANGED <<clock, coreVars, trackEmissionHistory, since, httpVars, triggerHandlers, loopVars, sseVars>>

DeregisterScent(sid) ==
    /\ deregisterScent(sid)
    /\ UNCHANGED <<clock, coreVars, trackEmissionHistory, since, httpVars, loopVars, sseVars>>

(* a handler of the embedding application, and the forwarder that          *)
(* setupSSETrigger installs for a session                                  *)
LocalHandler == [kind |-> "local", session |-> ""]
SseHandler(sessionId) == [kind |-> "sse", session |-> sessionId]

(* Blackboard.onTrigger / offTrigger *)
onTrigger(tbl, scentId, handler) == (scentId :> handler) @@ tbl
offTrigger(tbl, scentId) == Without(tbl, scentId)

OnTrigger(scentId) ==
    /\ triggerHandlers' = onTrigger(triggerHandlers, scentId, LocalHandler)
    /\ lastOp' = [op |-> "on_trigger", scent_id |-> scentId, round |-> Round(scentId)]
    /\ UNCHANGED <<clock, coreVars, trackEmissionHistory, since, httpVars, scentVars, loopVars, sseVars>>

OffTrigger(scentId) ==
    /\ triggerHandlers' = offTrigger(triggerHandlers, scentId)
    /\ lastOp' = [op |-> "off_trigger", scent_id |-> scentId]
    /\ UNCHANGED <<clock, coreVars, trackEmissionHistory, since, httpVars, scentVars, loopVars, sseVars>>

----------------------------------------------------------------------------
(* SSE fan-out (server.ts).  The transport state a handler touches is the  *)
(* record [sseClients, eventCounter, wire].                                *)

Sessions == {"s1", "s2"}

NoneMissed == [last |-> 0, events |-> <<>>]

ClientIds(cls) == {cls[i].id : i \in 1..Len(cls)}

(* an event written under the current value of the counter *)
CounterKept(T, i, event, data) ==
    LET c == T.sseClients[i].id
    IN [T EXCEPT !.wire[c] = Append(@, [id |-> T.eventCounter, event |-> event, data |-> data]),
                 !.sseClients[i].lastEventId = T.eventCounter]

(* sendSSEEvent: the next event id, written to the client's stream *)
sendSSEEvent(T, i, event, data) ==
    LET eventId == T.eventCounter + 1
        c == T.sseClients[i].id
    IN [T EXCEPT !.eventCounter = eventId,
                 !.wire[c] = Append(@, [id |-> eventId, event |-> event, data |-> data]),
                 !.sseClients[i].lastEventId = eventId]

TriggerData(payload) ==
    [method |-> "sbp/trigger", scent_id |-> payload.scent_id,
     triggered_at |-> payload.triggered_at]

(* sendSSENotification *)
sendSSENotification(T, i, payload) == sendSSEEvent(T, i, "message", TriggerData(payload))

RECURSIVE ForwardFrom(_, _, _, _, _)
(* the handler of setupSSETrigger(scentId, sessionId), from client i on *)
ForwardFrom(T, i, scentId, sessionId, payload) ==
    IF i > Len(T.sseClients) THEN T
    ELSE IF T.sseClients[i].sessionId = sessionId \/ scentId \in T.sseClients[i].scents
         THEN ForwardFrom(sendSSENotification(T, i, payload), i + 1, scentId, sessionId, payload)
         ELSE ForwardFrom(T, i + 1, scentId, sessionId, payload)

ForwardTrigger(T, scentId, sessionId, payload) == ForwardFrom(T, 1, scentId, sessionId, payload)

----------------------------------------------------------------------------
(* The evaluation loop (blackboard.ts).  evaluateScents() runs without     *)
(* interruption up to the dispatch it has to wait for: a handler of the    *)
(* application or an HTTP POST.  The SSE forwarder of server.ts completes  *)
(* without waiting, so the loop goes on to the next scent in the same run. *)
(* The state a run touches is the record                                   *)
(*   [scents, fireLog, evalLog, due, missed, sseClients, eventCounter, wire]. *)

(* variants of the two tests of the loop: no cooldown at all; every        *)
(* evaluation fires; every mode treated as edge_rising                     *)
NeverInCooldown(scent, now) == FALSE

ShouldTriggerAlways(scent, conditionMet) == TRUE

ShouldTriggerOnRise(scent, conditionMet) == conditionMet /\ ~scent.last_condition_met

(* an edge_falling test that looks at the current evaluation only *)
ShouldTriggerWhenLow(scent, conditionMet) == ~conditionMet

(* "this.triggerHandlers.get(scent.scent_id)" *)
NoHandler == [kind |-> "none", session |-> ""]

(* a dispatch that finds no handler *)
HandlerIgnored(sid) == NoHandler

localHandler(sid) == IF sid \in DOMAIN triggerHandlers THEN triggerHandlers[sid] ELSE NoHandler

inCooldown(scent, now) ==
    scent.last_triggered_at # 0 /\ now - scent.last_triggered_at < scent.cooldown_ms

shouldTrigger(scent, conditionMet) ==
    CASE scent.trigger_mode = "level" -> conditionMet
      [] scent.trigger_mode = "edge_rising" -> conditionMet /\ ~scent.last_condition_met
      [] scent.trigger_mode = "edge_falling" -> ~conditionMet /\ scent.last_condition_met
      [] OTHER -> conditionMet

(* last_condition_met kept when the scent does not fire *)
MetOnFire(scent, met) ==
    IF shouldTrigger(scent, met) THEN [scent EXCEPT !.last_condition_met = met] ELSE scent

(* "scent.last_condition_met = evalResult.met" *)
Evaluated(scent, met) == [scent EXCEPT !.last_condition_met = met]

(* the bookkeeping of the claims at a trigger of scentId: which open       *)
(* streams are due the trigger, which sessions miss it                     *)
NoteTrigger(L, scentId, payload) ==
    LET open == {L.sseClients[i].sessionId : i \in 1..Len(L.sseClients)}
    IN [L EXCEPT
          !.due = [c \in DOMAIN L.due |->
                     IF \E i \in 1..Len(L.sseClients) :
                            /\ L.sseClients[i].id = c
                            /\ <<L.sseClients[i].sessionId, scentId>> \in subscribed
                     THEN Append(L.due[c], payload) ELSE L.due[c]],
          !.missed = [ss \in DOMAIN L.missed |->
                        IF <<ss, scentId>> \in subscribed /\ ss \notin open
                        THEN [L.missed[ss] EXCEPT !.events = Append(@, payload)]
                        ELSE L.missed[ss]]]

LoopState ==
    [scents |-> scents, fireLog |-> fireLog, evalLog |-> evalLog, due |-> due,
     missed |-> missed, sseClients |-> sseClients, eventCounter |-> eventCounter,
     wire |-> wire]

RECURSIVE RunLoop(_, _, _, _)
(* "for (const scent of this.scents.values())" from entry pos of the Map   *)
(* on, for the tick that took now and the snapshot pheromones              *)
RunLoop(L, now, pheromones, pos) ==
    IF pos > Len(scentOrder)
    THEN [state |-> L, done |-> TRUE, pos |-> pos, awaiting |-> "", via |-> ""]
    ELSE IF scentOrder[pos] = Hole
    THEN RunLoop(L, now, pheromones, pos + 1)
    ELSE LET sid == scentOrder[pos]
             scent == L.scents[sid]
         IN IF inCooldown(scent, now)
            THEN RunLoop(L, now, pheromones, pos + 1)
            ELSE LET evalResult == evaluateCondition(scent.condition, pheromones, now)
                     fire == shouldTrigger(scent, evalResult.met)
                     L1 == [L EXCEPT !.scents[sid] = Evaluated(@, evalResult.met),
                                     !.evalLog[sid] = Append(@, [now |-> now, met |-> evalResult.met])]
                 IN IF ~fire
                    THEN RunLoop(L1, now, pheromones, pos + 1)
                    ELSE LET payload == [scent_id |-> sid, triggered_at |-> now]
                             L2 == NoteTrigger(
                                     [L1 EXCEPT !.scents[sid].last_triggered_at = now,
                                                !.fireLog[sid] = Append(@, now)],
                                     sid, payload)
                         IN IF localHandler(sid) # NoHandler
                            THEN IF localHandler(sid).kind = "sse"
                                 THEN LET T == ForwardTrigger(
                                                 [sseClients |-> L2.sseClients,
                                                  eventCounter |-> L2.eventCounter,
                                                  wire |-> L2.wire],
                                                 sid, localHandler(sid).session, payload)
                                      IN RunLoop([L2 EXCEPT !.sseClients = T.sseClients,
                                                            !.eventCounter = T.eventCounter,
                                                            !.wire = T.wire],
                                                 now, pheromones, pos + 1)
                                 ELSE [state |-> L2, done |-> FALSE, pos |-> pos,
                                       awaiting |-> sid, via |-> "handler"]
                            ELSE [state |-> L2, done |-> FALSE, pos |-> pos,
                                  awaiting |-> sid, via |-> "http"]

(* the deliveries in flight: one per suspended evaluateScents() *)
InFlight == {[scent_id |-> t.awaiting, triggered_at |-> t.now, via |-> t.via] : t \in ticks}

(* the state after a run r of the loop of the tick (now, pheromones),      *)
(* which replaces the suspended ticks old                                  *)
AfterRun(r, now, pheromones, old) ==
    LET tks == (ticks \ old) \cup
               (IF r.done THEN {}
                ELSE {[now |-> now, pheromones |-> pheromones, pos |-> r.pos,
                       awaiting |-> r.awaiting, via |-> r.via]})
    IN /\ ticks' = tks
       /\ scents' = r.state.scents
       /\ fireLog' = r.state.fireLog
       /\ evalLog' = r.state.evalLog
       /\ due' = r.state.due
       /\ missed' = r.state.missed
       /\ sseClients' = r.state.sseClients
       /\ eventCounter' = r.state.eventCounter
       /\ wire' = r.state.wire
       /\ scentOrder' = Compact(scentOrder, tks)
       /\ heap' = Referenced(heap, store, tks)

(* Blackboard.start / stop *)

(* the timers after start(): "if (this.evaluationTimer) return" and then   *)
(* one setInterval                                                         *)
Started(timer, ivs) == IF timer THEN ivs ELSE ivs + 1

(* the timers after stop(): clearInterval of the timer the field holds *)
Stopped(timer, ivs) == IF timer THEN ivs - 1 ELSE ivs

start ==
    /\ evaluationTimer' = TRUE
    /\ intervals' = Started(evaluationTimer, intervals)
    /\ lastOp' = [op |-> "start"]
    /\ UNCHANGED <<clock, coreVars, trackEmissionHistory, since, httpVars, triggerHandlers, scentVars,
                   lastTickAt, ticks, sseVars>>

stop ==
    /\ evaluationTimer' = FALSE
    /\ intervals' = Stopped(evaluationTimer, intervals)
    /\ lastOp' = [op |-> "stop"]
    /\ UNCHANGED <<clock, coreVars, trackEmissionHistory, since, httpVars, triggerHandlers, scentVars,
                   lastTickAt, ticks, sseVars>>

(* start() on a Blackboard whose loop is not running *)
Start == ~evaluationTimer /\ start

(* stop() on a Blackboard whose loop is running *)
Stop == evaluationTimer /\ stop

(* the callback of an interval timer: a new evaluateScents().  The interval is at   *)
(* least one unit of time, so two callbacks never take the same now.       *)
TimerFire ==
    /\ intervals > 0
    /\ clock > lastTickAt
    /\ Cardinality(ticks) < MaxTicks
    /\ lastTickAt' = clock
    /\ AfterRun(RunLoop(LoopState, clock, store, 1), clock, store, {})
    /\ obs' = [sid \in DOMAIN scents |->
                 Append(obs[sid],
                        [now |-> clock,
                         met |-> evaluateCondition(scents[sid].condition, store, clock).met])]
    /\ lastOp' = [op |-> "tick", now |-> clock]
    /\ UNCHANGED <<clock, store, emissionHistory, trackEmissionHistory, since, httpVars, triggerHandlers,
                   evaluationTimer, intervals, subscribed, sessions, owed>>

(* the delivery a suspended evaluateScents() awaits settles (the handler   *)
(* returns or throws, the POST is answered, fails or times out): the loop  *)
(* goes on with the next scent                                             *)
DeliverySettles(t) ==
    /\ t \in ticks
    /\ AfterRun(RunLoop(LoopState, t.now, t.pheromones, t.pos + 1), t.now, t.pheromones, {t})
    /\ lastOp' = [op |-> "settled"]
    /\ UNCHANGED <<clock, store, emissionHistory, trackEmissionHistory, since, httpVars, triggerHandlers,
                   evaluationTimer, intervals, lastTickAt, obs, subscribed, sessions, owed>>

(* how the delivery a tick awaits can end: the handler returns or throws;  *)
(* the POST is answered, fails, or is aborted at max_execution_ms          *)
Outcomes(via) ==
    IF via = "handler" THEN {"returned", "threw"} ELSE {"answered", "failed", "timeout"}

(* errors that leave dispatchTrigger *)
Propagated(outcome) == outcome \in {"returned", "answered"}

(* the try/catch around "await localHandler(payload)" and around the fetch *)
caught(outcome) == TRUE

(* what is left of evaluateScents() when its await ends: the rest of the   *)
(* loop, or nothing when the error is thrown on                            *)
Resumed(t, outcome) ==
    IF caught(outcome)
    THEN RunLoop(LoopState, t.now, t.pheromones, t.pos + 1)
    ELSE [state |-> LoopState, done |-> TRUE, pos |-> t.pos, awaiting |-> "", via |-> ""]

(* the delivery a suspended evaluateScents() awaits ends with outcome *)
DeliveryEnds(t, outcome) ==
    /\ t \in ticks
    /\ outcome \in Outcomes(t.via)
    /\ AfterRun(Resumed(t, outcome), t.now, t.pheromones, {t})
    /\ lastOp' = [op |-> "settled", outcome |-> outcome, tick |-> t]
    /\ UNCHANGED <<clock, store, emissionHistory, trackEmissionHistory, since, httpVars,
                   triggerHandlers, evaluationTimer, intervals, lastTickAt, obs, subscribed,
                   sessions, owed>>

----------------------------------------------------------------------------
(* The SSE transport (server.ts).  Requests carry the Sbp-Session-Id       *)
(* header sessionId.                                                       *)

SessionOpen(cls, sessionId) == \E i \in 1..Len(cls) : cls[i].sessionId = sessionId

ConnectedData == [method |-> "connected", scent_id |-> "", triggered_at |-> 0]

(* handleSSE: GET /sbp with Accept: text/event-stream; lastEventId is the  *)
(* Last-Event-ID header, 0 when the header is absent                       *)
SseOpen(sessionId, lastEventId) ==
    /\ Len(sseClients) < MaxClients
    /\ eventCounter < MaxEvents
    /\ LET clientId == SetMin((1..MaxClients) \ ClientIds(sseClients))
           client == [id |-> clientId, sessionId |-> sessionId, scents |-> {},
                      lastEventId |-> lastEventId]
           T == sendSSEEvent([sseClients |-> Append(sseClients, client),
                              eventCounter |-> eventCounter,
                              wire |-> (clientId :> <<>>) @@ wire],
                             Len(sseClients) + 1, "connected", ConnectedData)
       IN /\ sseClients' = T.sseClients
          /\ eventCounter' = T.eventCounter
          /\ wire' = T.wire
          /\ due' = (clientId :> <<>>) @@ due
          /\ owed' = (clientId :> IF lastEventId # 0 THEN missed[sessionId].events ELSE <<>>)
                         @@ owed
          /\ missed' = [missed EXCEPT ![sessionId] = NoneMissed]
          /\ lastOp' = [op |-> "sse_open", client |-> clientId, session |-> sessionId,
                        lastEventId |-> lastEventId]
    /\ UNCHANGED <<clock, coreVars, trackEmissionHistory, since, httpVars, triggerHandlers, scentVars,
                   loopVars, subscribed, sessions>>

RECURSIVE offTriggerAll(_, _)
offTriggerAll(tbl, scentIds) ==
    IF scentIds = {} THEN tbl
    ELSE LET sid == CHOOSE x \in scentIds : TRUE
         IN offTriggerAll(offTrigger(tbl, sid), scentIds \ {sid})

(* the "close" handler of the request of an SSE client *)
SseClose(i) ==
    /\ i \in 1..Len(sseClients)
    /\ LET client == sseClients[i]
           rest == [j \in 1..(Len(sseClients) - 1) |->
                      IF j < i THEN sseClients[j] ELSE sseClients[j + 1]]
       IN /\ sseClients' = rest
          /\ triggerHandlers' = offTriggerAll(triggerHandlers, client.scents)
          /\ wire' = Without(wire, client.id)
          /\ due' = Without(due, client.id)
          /\ owed' = Without(owed, client.id)
          /\ missed' = IF SessionOpen(rest, client.sessionId) THEN missed
                       ELSE [missed EXCEPT ![client.sessionId] =
                                [last |-> client.lastEventId, events |-> <<>>]]
          /\ lastOp' = [op |-> "sse_close", client |-> client.id,
                        session |-> client.sessionId, scents |-> client.scents]
    /\ UNCHANGED <<clock, coreVars, trackEmissionHistory, since, httpVars, scentVars, loopVars, subscribed,
                   sessions, eventCounter>>

(* setupSSETrigger *)
setupSSETrigger(tbl, scentId, sessionId) == onTrigger(tbl, scentId, SseHandler(sessionId))

(* handleRpc, "sbp/register_scent" *)
RegisterScentRpc(params, sessionId) ==
    /\ registerScent(params)
    /\ triggerHandlers' = setupSSETrigger(triggerHandlers, params.scent_id, sessionId)
    /\ UNCHANGED <<clock, coreVars, trackEmissionHistory, since, httpVars, loopVars, sseVars>>

(* handleRpc, "sbp/subscribe", with a session header *)
subscribe(sessionId, scentId) ==
    /\ triggerHandlers' = setupSSETrigger(triggerHandlers, scentId, sessionId)
    /\ sseClients' = [i \in 1..Len(sseClients) |->
                        IF sseClients[i].sessionId = sessionId
                        THEN [sseClients[i] EXCEPT !.scents = @ \cup {scentId}]
                        ELSE sseClients[i]]
    /\ subscribed' = subscribed \cup {<<sessionId, scentId>>}
    /\ lastOp' = [op |-> "subscribe", session |-> sessionId, scent_id |-> scentId]

Subscribe(sessionId, scentId) ==
    /\ subscribe(sessionId, scentId)
    /\ UNCHANGED <<clock, coreVars, trackEmissionHistory, since, httpVars, scentVars, loopVars, sessions,
                   eventCounter, wire, owed, due, missed>>

(* handleRpc, "sbp/unsubscribe" *)
unsubscribe(sessionId, scentId) ==
    /\ triggerHandlers' = offTrigger(triggerHandlers, scentId)
    /\ sseClients' = [i \in 1..Len(sseClients) |->
                        IF sseClients[i].sessionId = sessionId
                        THEN [sseClients[i] EXCEPT !.scents = @ \ {scentId}]
                        ELSE sseClients[i]]
    /\ subscribed' = subscribed \ {<<sessionId, scentId>>}
    /\ lastOp' = [op |-> "unsubscribe", session |-> sessionId, scent_id |-> scentId]

Unsubscribe(sessionId, scentId) ==
    /\ unsubscribe(sessionId, scentId)
    /\ UNCHANGED <<clock, coreVars, trackEmissionHistory, since, httpVars, scentVars, loopVars, sessions,
                   eventCounter, wire, owed, due, missed>>

----------------------------------------------------------------------------
(* The state after "new Blackboard(options)" and "new SbpServer(options)"  *)

NoOp == [op |-> "init"]

(* no request has been answered yet *)
NoReply == [status |-> 0, session |-> "undefined", error |-> 0]

(* createAuthHook and createRateLimitHook without options *)
DefaultOptions ==
    [auth |-> [apiKeys |-> {}, requireAuth |-> FALSE],
     rateLimit |-> [maxRequests |-> 1000, windowMs |-> 60000]]

(* the Blackboard and the server as constructed at time t, with            *)
(* options.trackEmissionHistory and the options of the hooks               *)
InitWith(track, t, opts) ==
    /\ clock = t
    /\ since = [emit |-> NoEmitSeen, cleared |-> {}, calls |-> <<>>]
    /\ heap = <<>>
    /\ store = <<>>
    /\ emissionHistory = <<>>
    /\ trackEmissionHistory = track
    /\ scents = <<>>
    /\ scentOrder = <<>>
    /\ triggerHandlers = <<>>
    /\ evaluationTimer = FALSE
    /\ intervals = 0
    /\ lastTickAt = 0
    /\ ticks = {}
    /\ sseClients = <<>>
    /\ subscribed = {}
    /\ sessions = {}
    /\ eventCounter = 0
    /\ wire = <<>>
    /\ owed = <<>>
    /\ lastOp = NoOp
    /\ fireLog = <<>>
    /\ evalLog = <<>>
    /\ obs = <<>>
    /\ due = <<>>
    /\ missed = [ss \in Sessions |-> NoneMissed]
    /\ reply = NoReply
    /\ buckets = <<>>
    /\ options = opts

InitAt(track, t) == InitWith(track, t, DefaultOptions)

(* time starts at 1: a time stamp of 0 stands for null in the scents *)
InitState(track) == InitAt(track, 1)

----------------------------------------------------------------------------
(* SpecEmit: the pheromone store under emit, evaporate, gc and time *)

EmitIntensities == {0 - Quarter, 2 * Quarter, Scale + Quarter}

(* a step decay that goes up to 1 after one unit of time *)
RisingStep == Step(<<[at_ms |-> 1, intensity |-> Scale]>>)

(* payload, tags, source_agent and decay of an emit; the payloads n1 and   *)
(* n2 hash alike                                                           *)
EmitBodies ==
    {[payload |-> "n1", tags |-> {}, source_agent |-> "undefined", decay |-> defaultDecay],
     [payload |-> "n2", tags |-> {"t"}, source_agent |-> "agent", decay |-> Immortal],
     [payload |-> "n1", tags |-> {}, source_agent |-> "undefined", decay |-> RisingStep]}

EmitInputs ==
    {[trail |-> "a", type |-> "x", intensity |-> i, decay |-> b.decay, payload |-> b.payload,
      tags |-> b.tags, merge_strategy |-> ms, source_agent |-> b.source_agent] :
        i \in EmitIntensities, b \in EmitBodies, ms \in MergeStrategies}

EvaporateInputs ==
    {[trail |-> "a", types |-> {}, older_than_ms |-> -1, below_intensity |-> b,
      has_tags |-> FALSE, tags |-> NoFilter] : b \in {-1, 2 * Quarter}}

InitEmit == InitState(TRUE)

NextEmit ==
    \/ \E params \in EmitInputs : Emit(params)
    \/ \E params \in EvaporateInputs : Evaporate(params)
    \/ Gc
    \/ Advance

SpecEmit == InitEmit /\ [][NextEmit]_vars

----------------------------------------------------------------------------
(* SpecLoop: the scent table and the evaluation loop, with handlers of the *)
(* application and HTTP deliveries                                         *)

Signal ==
    [trail |-> "a", type |-> "x", intensity |-> Scale, decay |-> Immortal, payload |-> "n1",
     tags |-> {}, merge_strategy |-> "reinforce", source_agent |-> "undefined"]

EvaporateTrail ==
    [trail |-> "a", types |-> {}, older_than_ms |-> -1, below_intensity |-> -1,
     has_tags |-> FALSE, tags |-> NoFilter]

Present == Threshold("a", "x", "any", ">=", 2 * Quarter)

ScentParams(sid, cd, tm) ==
    [scent_id |-> sid, agent_endpoint |-> "http://agent", condition |-> Present,
     cooldown_ms |-> cd, trigger_mode |-> tm]

(* q1 is a level scent without cooldown; q2 is a level scent with         *)
(* cooldown or an edge_rising scent with or without                        *)
ScentInputs ==
    {ScentParams("q1", 0, "level"), ScentParams("q2", 2, "level"),
     ScentParams("q2", 0, "edge_rising"), ScentParams("q2", 2, "edge_rising")}

(* the scents the embedding application handles itself *)
HandledScents == {"q1"}

InitLoop == InitState(FALSE)

(* The environment emits the signal when the trail is empty and           *)
(* evaporates the trail when it is not, at any time between the steps of   *)
(* the loop.                                                               *)
NextLoop ==
    \/ (store = <<>> /\ Emit(Signal))
    \/ (store # <<>> /\ Evaporate(EvaporateTrail))
    \/ Advance
    \/ \E params \in ScentInputs : RegisterScent(params)
    \/ \E sid \in HandledScents : OnTrigger(sid)
    \/ Start
    \/ TimerFire
    \/ \E t \in ticks : DeliverySettles(t)

SpecLoop == InitLoop /\ [][NextLoop]_vars

----------------------------------------------------------------------------
(* SpecLive: the evaluation loop over level scents whose condition, once   *)
(* met, stays met.  Time passes, the timer fires, and an HTTP delivery     *)
(* always settles (fetch is bounded by AbortSignal.timeout); nothing       *)
(* bounds the time a handler of the application takes.                     *)

LevelInputs == {ScentParams("q1", 0, "level"), ScentParams("q2", 2, "level")}

HttpSettles == \E t \in ticks : t.via = "http" /\ DeliverySettles(t)

NextLive ==
    \/ (store = <<>> /\ Emit(Signal))
    \/ Advance
    \/ \E params \in LevelInputs : RegisterScent(params)
    \/ \E sid \in HandledScents : OnTrigger(sid)
    \/ Start
    \/ TimerFire
    \/ \E t \in ticks : DeliverySettles(t)

SpecLive ==
    /\ InitLoop
    /\ [][NextLive]_vars
    /\ WF_vars(Advance)
    /\ WF_vars(TimerFire)
    /\ WF_vars(HttpSettles)

----------------------------------------------------------------------------
(* SpecSse: the SSE transport over one level scent without cooldown,       *)
(* within one interval of the evaluation timer.  A session unsubscribes    *)
(* only from what it has subscribed to.                                    *)

Watched == ScentParams("q1", 0, "level")

(* the Last-Event-ID a client of the session sends: none, or the id of the *)
(* last event the session's stream carried                                 *)
LastEventIds(sessionId) == {0, missed[sessionId].last}

InitSse == InitState(FALSE)

NextSse ==
    \/ (store = <<>> /\ Emit(Signal))
    \/ ("q1" \notin DOMAIN scents /\ RegisterScent(Watched))
    \/ Start
    \/ TimerFire
    \/ \E t \in ticks : DeliverySettles(t)
    \/ \E ss \in Sessions : \E n \in LastEventIds(ss) : SseOpen(ss, n)
    \/ \E i \in 1..MaxClients : SseClose(i)
    \/ \E ss \in Sessions : Subscribe(ss, "q1")
    \/ \E ss \in Sessions : (<<ss, "q1">> \in subscribed /\ Unsubscribe(ss, "q1"))

SpecSse == InitSse /\ [][NextSse]_vars

----------------------------------------------------------------------------
(* SpecSniff: emit, evaporate, gc and sniff on two trails, with decay      *)
(* models that reach 0 (linear) and that rise (step).                      *)

Trails == {"a", "b"}

FastLinear == Linear(2 * Quarter)

SniffEmit(tr, x, d, ms) ==
    [trail |-> tr, type |-> "x", intensity |-> x, payload |-> "empty", tags |-> {},
     source_agent |-> "undefined", decay |-> d, merge_strategy |-> ms]

SniffEmitInputs ==
    {SniffEmit("a", 3 * Quarter, FastLinear, "new"),
     SniffEmit("a", 2 * Quarter, RisingStep, "max"),
     SniffEmit("b", 2 * Quarter, Immortal, "new"),
     SniffEmit("b", Scale + Quarter, Immortal, "reinforce"),
     SniffEmit("b", Quarter, Immortal, "add")}

SniffEvaporate(tr, b) ==
    [trail |-> tr, types |-> {}, older_than_ms |-> -1, below_intensity |-> b,
     has_tags |-> FALSE, tags |-> NoFilter]

SniffEvaporateInputs == {SniffEvaporate("a", -1), SniffEvaporate("undefined", Scale)}

SniffInputs ==
    {SniffParams({}, {}, 0, -1, DefaultLimit, FALSE),
     SniffParams({"a"}, {}, 0, -1, DefaultLimit, FALSE),
     SniffParams({"a"}, {}, 0, -1, DefaultLimit, TRUE),
     SniffParams({}, {"x"}, Scale, -1, DefaultLimit, FALSE),
     SniffParams({}, {}, 0, 1, 1, TRUE)}

InitSniff == InitState(FALSE)

NextSniff ==
    \/ \E params \in SniffEmitInputs : Emit(params)
    \/ \E params \in SniffEvaporateInputs : Evaporate(params)
    \/ Gc
    \/ Advance
    \/ \E params \in SniffInputs : Sniff(params)

SpecSniff == InitSniff /\ [][NextSniff]_vars

----------------------------------------------------------------------------
(* SpecEvaporate: evaporate with every filter, on a store with two trails, *)
(* two types and tags, beside a registered scent and a tracked history.    *)

EvaporateEmit(tr, ty, x, d, tg) ==
    [trail |-> tr, type |-> ty, intensity |-> x, payload |-> "empty", tags |-> tg,
     source_agent |-> "undefined", decay |-> d, merge_strategy |-> "new"]

EvaporateEmitInputs ==
    {EvaporateEmit("a", "x", 3 * Quarter, FastLinear, {}),
     EvaporateEmit("a", "y", 2 * Quarter, Immortal, {"t"}),
     EvaporateEmit("b", "x", Scale, Immortal, {"t"})}

Filter(tr, tys, o, b, tg) ==
    [trail |-> tr, types |-> tys, older_than_ms |-> o, below_intensity |-> b,
     has_tags |-> tg # NoFilter, tags |-> tg]

AnyTagged == [any |-> {"t"}, all |-> {}, none |-> {}]
NoneTagged == [any |-> {}, all |-> {}, none |-> {"t"}]

FilterInputs ==
    {Filter("undefined", {}, -1, -1, NoFilter),
     Filter("a", {}, -1, -1, NoFilter),
     Filter("undefined", {"x"}, -1, -1, NoFilter),
     Filter("undefined", {}, 1, -1, NoFilter),
     Filter("undefined", {}, -1, 2 * Quarter, NoFilter),
     Filter("undefined", {}, -1, -1, AnyTagged),
     Filter("a", {}, -1, -1, NoneTagged),
     Filter("a", {"x"}, 1, 2 * Quarter, NoFilter)}

InitEvaporate == InitState(TRUE)

NextEvaporate ==
    \/ \E params \in EvaporateEmitInputs : Emit(params)
    \/ \E params \in FilterInputs : Evaporate(params)
    \/ Advance
    \/ "q1" \notin DOMAIN scents /\ RegisterScent(Watched)

SpecEvaporate == InitEvaporate /\ [][NextEvaporate]_vars

----------------------------------------------------------------------------
(* SpecScent: registering, re-registering and deregistering scents, with   *)
(* local handlers attached and removed, while the loop runs and triggers.  *)

UpsertInputs ==
    {ScentParams("q1", 0, "level"), ScentParams("q1", 2, "edge_rising"),
     ScentParams("q2", 0, "level")}

InitScent == InitState(TRUE)

NextScent ==
    \/ store = <<>> /\ Emit(Signal)
    \/ \E params \in UpsertInputs : RegisterScent(params)
    \/ \E sid \in ScentIds : DeregisterScent(sid)
    \/ OnTrigger("q1")
    \/ OffTrigger("q1")
    \/ Start
    \/ TimerFire
    \/ \E t \in ticks : DeliverySettles(t)
    \/ Advance

SpecScent == InitScent /\ [][NextScent]_vars

----------------------------------------------------------------------------
(* SpecHistory: emits on two trails, creating and merging, with and        *)
(* without history tracking, from time 0 on so that the window is passed.  *)

HistoryEmit(tr, ms) ==
    [trail |-> tr, type |-> "x", intensity |-> 2 * Quarter, payload |-> "empty", tags |-> {},
     source_agent |-> "undefined", decay |-> Immortal, merge_strategy |-> ms]

HistoryEmitInputs == {HistoryEmit(tr, ms) : tr \in Trails, ms \in {"reinforce", "new"}}

InitHistory == \E track \in BOOLEAN : InitAt(track, 0)

NextHistory ==
    \/ \E params \in HistoryEmitInputs : Emit(params)
    \/ Evaporate(Filter("a", {}, -1, -1, NoFilter))
    \/ Advance

SpecHistory == InitHistory /\ [][NextHistory]_vars

----------------------------------------------------------------------------
(* SpecMerge: merging emits whose payload, tags, source_agent and decay    *)
(* differ from those of the stored pheromone, beside another trail and a   *)
(* registered scent.                                                       *)

MergeEmit(tr, pl, tg, ag, d, x, ms) ==
    [trail |-> tr, type |-> "x", intensity |-> x, payload |-> pl, tags |-> tg,
     source_agent |-> ag, decay |-> d, merge_strategy |-> ms]

MergeEmitInputs ==
    {MergeEmit("a", "n1", {}, "undefined", defaultDecay, Scale, "new"),
     MergeEmit("b", "k1", {}, "undefined", Immortal, 2 * Quarter, "new")}
    \cup {MergeEmit("a", "n2", {"t"}, "agent", Immortal, 2 * Quarter, ms) :
            ms \in {"reinforce", "replace", "max", "add"}}

InitMerge == InitState(FALSE)

NextMerge ==
    \/ \E params \in MergeEmitInputs : Emit(params)
    \/ Advance
    \/ "q1" \notin DOMAIN scents /\ RegisterScent(Watched)

SpecMerge == InitMerge /\ [][NextMerge]_vars

----------------------------------------------------------------------------
(* POST /sbp (server.ts): handlePost and handleRpc.  A request carries the *)
(* Sbp-Session-Id header ("undefined" when absent) and the parsed body.    *)

(* a request without params *)
NoParams == [undefined |-> TRUE]

(* the body "null", or no body at all *)
NullBody == [jsonrpc |-> "undefined", id |-> 0, method |-> "undefined", params |-> NoParams]

Rpc(jsonrpc, method, params) ==
    [jsonrpc |-> jsonrpc, id |-> 1, method |-> method, params |-> params]

(* JsonRpcRequestSchema *)
validateEnvelope(body) ==
    IF /\ body # NullBody
       /\ body.jsonrpc = "2.0"
       /\ body.method \notin {"undefined", ""}
    THEN 0 ELSE -32600

(* EmitParamsSchema, in the fields the requests of the model vary *)
EmitParamsValid(params) ==
    /\ params # NoParams
    /\ params.trail # ""
    /\ params.type # ""
    /\ params.intensity >= 0
    /\ params.intensity <= Scale

Methods ==
    {"sbp/emit", "sbp/sniff", "sbp/register_scent", "sbp/deregister_scent", "sbp/evaporate",
     "sbp/inspect", "sbp/subscribe", "sbp/unsubscribe"}

(* METHOD_SCHEMAS and validateParams: the params of the other methods are  *)
(* schema-valid in every request of the model                              *)
validateParams(method, params) ==
    IF method = "sbp/emit" /\ ~EmitParamsValid(params) THEN -32602 ELSE 0

(* nothing of the Blackboard or of the SSE clients changes *)
Untouched ==
    UNCHANGED <<clock, coreVars, trackEmissionHistory, since, triggerHandlers, scentVars,
                loopVars, sseClients, subscribed>>

(* the values of randomUUID() *)
UuidPool == <<"u1", "u2", "u3", "u4">>
Uuids == {UuidPool[i] : i \in 1..MaxUuids}

(* randomUUID(): an id no session carries *)
randomUUID == Uuids \ sessions

(* handleRpc(request, httpRequest): code is the error code of the          *)
(* response, 0 when it carries a result                                    *)
handleRpc(body, sessionId, code) ==
    CASE body.method = "sbp/emit" ->
           IF body.params = NoParams
           THEN /\ code = -32603
                /\ lastOp' = [op |-> "rpc_error"]
                /\ Untouched
           ELSE /\ code = 0
                /\ emit(body.params)
                /\ UNCHANGED <<sseClients, subscribed>>
      [] body.method = "sbp/sniff" ->
           /\ code = 0
           /\ sniffed(body.params)
           /\ UNCHANGED <<sseClients, subscribed>>
      [] body.method = "sbp/register_scent" ->
           /\ code = 0
           /\ registerScent(body.params)
           /\ triggerHandlers' =
                 IF sessionId # "undefined"
                 THEN setupSSETrigger(triggerHandlers, body.params.scent_id, sessionId)
                 ELSE triggerHandlers
           /\ UNCHANGED <<clock, coreVars, trackEmissionHistory, since, loopVars, sseClients,
                          subscribed>>
      [] body.method = "sbp/deregister_scent" ->
           /\ code = 0
           /\ deregisterScent(body.params.scent_id)
           /\ UNCHANGED <<clock, coreVars, trackEmissionHistory, since, loopVars, sseClients,
                          subscribed>>
      [] body.method = "sbp/evaporate" ->
           /\ code = 0
           /\ evaporate(body.params)
           /\ UNCHANGED <<sseClients, subscribed>>
      [] body.method = "sbp/inspect" ->
           /\ code = 0
           /\ lastOp' = [op |-> "inspect", now |-> clock]
           /\ Untouched
      [] body.method = "sbp/subscribe" ->
           /\ code = 0
           /\ IF sessionId # "undefined"
              THEN subscribe(sessionId, body.params.scent_id)
              ELSE /\ lastOp' = [op |-> "subscribe", session |-> sessionId,
                                 scent_id |-> body.params.scent_id]
                   /\ UNCHANGED <<triggerHandlers, sseClients, subscribed>>
           /\ UNCHANGED <<clock, coreVars, trackEmissionHistory, since, scentVars, loopVars>>
      [] body.method = "sbp/unsubscribe" ->
           /\ code = 0
           /\ unsubscribe(sessionId, body.params.scent_id)
           /\ UNCHANGED <<clock, coreVars, trackEmissionHistory, since, scentVars, loopVars>>
      [] OTHER ->
           /\ code = -32601
           /\ lastOp' = [op |-> "rpc_error"]
           /\ Untouched

(* handlePost: the session is looked up or created, the request handled,   *)
(* the session header set on the reply.  The destructuring of a null body  *)
(* throws before the "try" of handleRpc: the reply is Fastify's 500.       *)
handlePost(sessionHeader, body) ==
    \E sessionId \in (IF sessionHeader = "undefined" THEN randomUUID ELSE {sessionHeader}) :
      /\ sessions' = IF sessionHeader = "undefined" THEN sessions \cup {sessionId} ELSE sessions
      /\ IF body = NullBody
         THEN /\ reply' = [status |-> 500, session |-> "undefined", error |-> 0]
              /\ lastOp' = [op |-> "rpc_error"]
              /\ Untouched
         ELSE \E code \in {0, -32601, -32603} :
                /\ handleRpc(body, sessionHeader, code)
                /\ reply' = [status |-> 200, session |-> sessionId, error |-> code]
      /\ UNCHANGED streamVars

(* POST /sbp on a server without hooks *)
Post(sessionHeader, body) ==
    /\ handlePost(sessionHeader, body)
    /\ UNCHANGED <<buckets, options>>

----------------------------------------------------------------------------
(* SpecPost: requests to POST /sbp, with and without a session header,     *)
(* with valid and invalid envelopes and params                             *)

TooStrong == [Signal EXCEPT !.intensity = 2 * Scale]
NoTrail == [Signal EXCEPT !.trail = ""]
ScentRef == [scent_id |-> "q1"]

PostBodies ==
    {NullBody,
     Rpc("2.0", "sbp/emit", Signal),
     Rpc("undefined", "sbp/emit", Signal),
     Rpc("2.0", "sbp/emit", TooStrong),
     Rpc("2.0", "sbp/emit", NoTrail),
     Rpc("2.0", "sbp/emit", NoParams),
     Rpc("2.0", "sbp/sniff", SniffParams({}, {}, 0, -1, DefaultLimit, FALSE)),
     Rpc("2.0", "sbp/register_scent", Watched),
     Rpc("2.0", "sbp/deregister_scent", ScentRef),
     Rpc("2.0", "sbp/evaporate", EvaporateTrail),
     Rpc("2.0", "sbp/inspect", NoParams),
     Rpc("2.0", "sbp/subscribe", ScentRef),
     Rpc("2.0", "sbp/unsubscribe", ScentRef),
     Rpc("2.0", "sbp/unknown", NoParams)}

(* the Sbp-Session-Id a client sends: none, an id the server has assigned, *)
(* or one of its own making                                                *)
SessionHeaders == {"undefined", "s1"} \cup sessions

InitPost == InitState(FALSE)

NextPost == \E sessionHeader \in SessionHeaders : \E body \in PostBodies : Post(sessionHeader, body)

SpecPost == InitPost /\ [][NextPost]_vars

----------------------------------------------------------------------------
(* The onRequest hooks (auth.ts, rate-limiter.ts) in front of the routes.  *)
(* A request has a method, a url (the parts around its "?"), the split of  *)
(* its Authorization header at " " (<<>> when absent), its Sbp-Agent-Id    *)
(* and Sbp-Session-Id headers, its ip and its body.                        *)

(* a reply without a session header and without JSON-RPC error *)
Answer(status) ==
    /\ reply' = [status |-> status, session |-> "undefined", error |-> 0]
    /\ lastOp' = [op |-> "http", status |-> status]
    /\ Untouched
    /\ UNCHANGED <<sessions, streamVars>>

(* a reply sent by a hook, which ends the request *)
Rejected(status, code) ==
    /\ reply' = [status |-> status, session |-> "undefined", error |-> code]
    /\ lastOp' = [op |-> "http", status |-> status]
    /\ Untouched
    /\ UNCHANGED <<sessions, streamVars>>

(* setupRoutes, for the requests of the model: the CORS hook answers       *)
(* OPTIONS, /health is read-only, a path without route is Fastify's 404    *)
Route(method, url, sessionHeader, body) ==
    CASE method = "OPTIONS" -> Answer(204)
      [] method = "GET" /\ url[1] = "/health" -> Answer(200)
      [] method = "POST" /\ url[1] = "/sbp" -> handlePost(sessionHeader, body)
      [] OTHER -> Answer(404)

PUBLIC_PATHS == {"/health"}

(* String.prototype.toLowerCase on the schemes of the model *)
toLowerCase(str) == IF str \in {"Bearer", "BEARER"} THEN "bearer" ELSE str

(* a hook that lets every request through *)
AuthSkipped(auth, method, url, authorization) == "done"

(* authHook: "done" when it calls done(), "unauthorized" when it replies *)
authHook(auth, method, url, authorization) ==
    IF ~auth.requireAuth \/ Cardinality(auth.apiKeys) = 0 THEN "done"
    ELSE IF url[1] \in PUBLIC_PATHS \/ method = "OPTIONS" THEN "done"
    ELSE IF authorization = <<>> THEN "unauthorized"
    ELSE IF Len(authorization) # 2 \/ toLowerCase(authorization[1]) # "bearer" THEN "unauthorized"
    ELSE IF authorization[2] \notin auth.apiKeys THEN "unauthorized"
    ELSE "done"

(* a request to a server whose onRequest hook is authHook *)
AuthRequest(method, url, authorization, sessionHeader, body) ==
    IF authHook(options.auth, method, url, authorization) = "unauthorized"
    THEN Rejected(401, -32005) /\ UNCHANGED <<buckets, options>>
    ELSE Route(method, url, sessionHeader, body) /\ UNCHANGED <<buckets, options>>

----------------------------------------------------------------------------
(* SpecAuth: requests with and without Authorization header to servers     *)
(* with and without required authentication                                *)

ApiKeys == {"k1", "k2"}

AuthOptions ==
    {[DefaultOptions EXCEPT !.auth = [apiKeys |-> keys, requireAuth |-> required]] :
        keys \in {{}, ApiKeys}, required \in BOOLEAN}

Targets ==
    {<<"POST", <<"/sbp">>>>, <<"GET", <<"/health">>>>, <<"GET", <<"/health", "probe=1">>>>,
     <<"POST", <<"/health">>>>, <<"OPTIONS", <<"/sbp">>>>}

Authorizations ==
    {<<>>, <<"Bearer", "k1">>, <<"bearer", "k2">>, <<"Bearer", "k9">>, <<"Basic", "k1">>,
     <<"k1">>, <<"Bearer", "", "k1">>}

AuthBodies ==
    {Rpc("2.0", "sbp/emit", Signal),
     Rpc("2.0", "sbp/register_scent", Watched)}

(* the requests of the model carry no Sbp-Session-Id *)
AuthSessions == {"undefined"}

InitAuth == \E opts \in AuthOptions : InitWith(FALSE, 1, opts)

NextAuth ==
    \E target \in Targets : \E authorization \in Authorizations :
      \E sessionHeader \in AuthSessions : \E body \in AuthBodies :
         AuthRequest(target[1], target[2], authorization, sessionHeader, body)

SpecAuth == InitAuth /\ [][NextAuth]_vars

----------------------------------------------------------------------------
(* The rate limiter (rate-limiter.ts).  The tokens of a bucket are counted *)
(* in units of 1/windowMs of a token, so that the refill of one ms is      *)
(* maxRequests units and one token is windowMs units.                      *)

(* Math.ceil(a / b) for a >= 0 and b > 0 *)
Ceil(a, b) == (a + b - 1) \div b

(* "request.headers['sbp-agent-id'] || request.ip || 'anonymous'" *)
agentId(agentHeader, ip) ==
    IF agentHeader \notin {"undefined", ""} THEN agentHeader
    ELSE IF ip \notin {"undefined", ""} THEN ip
    ELSE "anonymous"

(* a refill without the cap *)
Uncapped(opts, bucket, now) == bucket.tokens + (now - bucket.lastRefill) * opts.maxRequests

(* "Math.min(maxRequests, bucket.tokens + elapsed * refillRate)" *)
Refilled(opts, bucket, now) ==
    Min2(opts.maxRequests * opts.windowMs,
         bucket.tokens + (now - bucket.lastRefill) * opts.maxRequests)

(* rateLimitHook: the buckets after the hook, "done" when it calls done(), *)
(* "limited" when it replies, and the retry_after_ms of that reply         *)
rateLimitHook(opts, bks, method, url, agentHeader, ip, now) ==
    IF url[1] = "/health" \/ method = "OPTIONS"
    THEN [buckets |-> bks, outcome |-> "done", retry_after_ms |-> 0]
    ELSE LET key == agentId(agentHeader, ip)
             bucket == IF key \in DOMAIN bks THEN bks[key]
                       ELSE [tokens |-> opts.maxRequests * opts.windowMs, lastRefill |-> now]
             tokens == Refilled(opts, bucket, now)
         IN IF tokens < opts.windowMs
            THEN [buckets |-> (key :> [tokens |-> tokens, lastRefill |-> now]) @@ bks,
                  outcome |-> "limited",
                  retry_after_ms |-> Ceil(opts.windowMs - tokens, opts.maxRequests)]
            ELSE [buckets |-> (key :> [tokens |-> tokens - opts.windowMs, lastRefill |-> now])
                                 @@ bks,
                  outcome |-> "done", retry_after_ms |-> 0]

(* the reply of the rate limiter *)
Limited(retryAfterMs) ==
    /\ reply' = [status |-> 429, session |-> "undefined", error |-> -32004,
                 retry_after_ms |-> retryAfterMs]
    /\ lastOp' = [op |-> "http", status |-> 429]
    /\ Untouched
    /\ UNCHANGED <<sessions, streamVars>>

(* a request to a server whose onRequest hook is rateLimitHook *)
RateRequest(method, url, agentHeader, ip, sessionHeader, body) ==
    LET hook == rateLimitHook(options.rateLimit, buckets, method, url, agentHeader, ip, clock)
    IN /\ buckets' = hook.buckets
       /\ options' = options
       /\ IF hook.outcome = "limited"
          THEN Limited(hook.retry_after_ms)
          ELSE Route(method, url, sessionHeader, body)

(* the cleanup interval: the buckets not refilled for five windows go *)
Cleanup ==
    LET stale == {key \in DOMAIN buckets :
                    clock - buckets[key].lastRefill > options.rateLimit.windowMs * 5}
    IN /\ stale # {}
       /\ buckets' = [key \in DOMAIN buckets \ stale |-> buckets[key]]
       /\ lastOp' = [op |-> "cleanup"]
       /\ Untouched
       /\ UNCHANGED <<sessions, streamVars, reply, options>>

(* time passes, over more than five windows *)
Wait ==
    /\ clock < MaxWait
    /\ clock' = clock + 1
    /\ lastOp' = [op |-> "advance"]
    /\ UNCHANGED <<coreVars, trackEmissionHistory, since, triggerHandlers, scentVars, loopVars,
                   sseVars, httpVars>>

----------------------------------------------------------------------------
(* SpecRate: two agents, one known by its Sbp-Agent-Id and one by its ip,  *)
(* behind limiters of half a token and of one token per ms                 *)

RateOptions ==
    {[DefaultOptions EXCEPT !.rateLimit = [maxRequests |-> n, windowMs |-> 2]] : n \in {1, 2}}

(* Sbp-Agent-Id and ip of the requests *)
Agents == {<<"a1", "ip1">>, <<"undefined", "ip1">>}

RateBody == Rpc("2.0", "sbp/sniff", SniffParams({}, {}, 0, -1, DefaultLimit, FALSE))

InitRate == \E opts \in RateOptions : InitWith(FALSE, 1, opts)

NextRate ==
    \/ \E target \in Targets : \E agent \in Agents :
          RateRequest(target[1], target[2], agent[1], agent[2], "s1", RateBody)
    \/ Cleanup
    \/ Wait

SpecRate == InitRate /\ [][NextRate]_vars

----------------------------------------------------------------------------
(* SpecDispatch: a level scent with and without local handler and an       *)
(* edge_rising scent with cooldown delivered over HTTP, on a trail that is *)
(* emitted to and evaporated; deliveries end with and without error        *)

DispatchScents == {ScentParams("q1", 0, "level"), ScentParams("q2", 2, "edge_rising")}

InitDispatch == InitState(FALSE)

NextDispatch ==
    \/ store = <<>> /\ Emit(Signal)
    \/ store # <<>> /\ Evaporate(EvaporateTrail)
    \/ \E params \in DispatchScents : params.scent_id \notin DOMAIN scents /\ RegisterScent(params)
    \/ OnTrigger("q1")
    \/ OffTrigger("q1")
    \/ Start
    \/ TimerFire
    \/ \E t \in ticks : \E outcome \in Outcomes(t.via) : DeliveryEnds(t, outcome)
    \/ Advance

SpecDispatch == InitDispatch /\ [][NextDispatch]_vars

----------------------------------------------------------------------------
(* SpecFalling: an edge_falling scent, with and without cooldown, behind a *)
(* level scent whose delivery suspends the tick; both are registered       *)
(* again at any time, and the trail is emitted to and evaporated           *)

FallingScents ==
    {ScentParams("q1", 0, "level"), ScentParams("q2", 0, "edge_falling"),
     ScentParams("q2", 2, "edge_falling")}

InitFalling == InitState(FALSE)

NextFalling ==
    \/ store = <<>> /\ Emit(Signal)
    \/ store # <<>> /\ Evaporate(EvaporateTrail)
    \/ \E params \in FallingScents : RegisterScent(params)
    \/ Start
    \/ TimerFire
    \/ \E t \in ticks : \E outcome \in Outcomes(t.via) : DeliveryEnds(t, outcome)
    \/ Advance

SpecFalling == InitFalling /\ [][NextFalling]_vars

----------------------------------------------------------------------------

(* SpecLifecycle: start() and stop() called at any time, any number of     *)
(* times, around ticks that suspend on deliveries; two level scents on the *)
(* signal, one delivered over HTTP and one to a handler once it has one,   *)
(* are registered and deregistered at any time, also under a suspended     *)
(* tick                                                                    *)

LifecycleScents == {ScentParams("q1", 0, "level"), ScentParams("q2", 0, "level")}

InitLifecycle == InitState(FALSE)

NextLifecycle ==
    \/ store = <<>> /\ Emit(Signal)
    \/ \E params \in LifecycleScents : params.scent_id \notin DOMAIN scents /\ RegisterScent(params)
    \/ \E sid \in ScentIds : DeregisterScent(sid)
    \/ "q2" \in DOMAIN scents /\ "q2" \notin DOMAIN triggerHandlers /\ OnTrigger("q2")
    \/ start
    \/ stop
    \/ TimerFire
    \/ \E t \in ticks : DeliverySettles(t)
    \/ Advance

SpecLifecycle == InitLifecycle /\ [][NextLifecycle]_vars

----------------------------------------------------------------------------

(* SpecUnique: emits with the four merging strategies, of payloads with    *)
(* equal and with different hashes, with linear, immortal and exponential  *)
(* decay, some born below the floor, between evaporates, collections and   *)
(* the passage of time                                                     *)

Merging == {"reinforce", "replace", "max", "add"}

UniqueEmit(tr, pl, d, x, ms) ==
    [trail |-> tr, type |-> "x", intensity |-> x, payload |-> pl, tags |-> {},
     source_agent |-> "undefined", decay |-> d, merge_strategy |-> ms]

UniqueEmits ==
    {UniqueEmit("a", "n1", FastLinear, 2 * Quarter, ms) : ms \in Merging}
    \cup {UniqueEmit("a", "n2", Immortal, Quarter, "replace"),
          UniqueEmit("a", "k1", defaultDecay, 0, "add"),
          UniqueEmit("b", "n1", Immortal, Scale, "max")}

OlderThanOne == Filter("a", {}, 1, -1, NoFilter)

InitUnique == InitState(FALSE)

NextUnique ==
    \/ \E params \in UniqueEmits : Emit(params)
    \/ store # <<>> /\ Evaporate(OlderThanOne)
    \/ Gc
    \/ Advance

SpecUnique == InitUnique /\ [][NextUnique]_vars

----------------------------------------------------------------------------

(* SpecView: a level scent on the presence of the signal, whose delivery   *)
(* suspends the tick, before a level scent on the summed intensity of the  *)
(* trail.  The signal is emitted weak on the empty trail, which creates    *)
(* the pheromone, and strong with "replace" on the trail that has it,      *)
(* which merges; the trail is evaporated and collected.                    *)

Strong == Threshold("a", "x", "sum", ">=", Scale)

ViewScents ==
    {ScentParams("q1", 0, "level"), [ScentParams("q2", 0, "level") EXCEPT !.condition = Strong]}

WeakSignal == [Signal EXCEPT !.intensity = 2 * Quarter, !.merge_strategy = "replace"]

StrongSignal == [Signal EXCEPT !.merge_strategy = "replace"]

InitView == InitState(FALSE)

NextView ==
    \/ store = <<>> /\ Emit(WeakSignal)
    \/ store # <<>> /\ Emit(StrongSignal)
    \/ store # <<>> /\ Evaporate(EvaporateTrail)
    \/ Gc
    \/ \E params \in ViewScents : params.scent_id \notin DOMAIN scents /\ RegisterScent(params)
    \/ Start
    \/ TimerFire
    \/ \E t \in ticks : DeliverySettles(t)
    \/ Advance

SpecView == InitView /\ [][NextView]_vars

----------------------------------------------------------------------------

(* evaluateCondition called on the pheromones of the Map at Date.now(), as *)
(* evaluateScents calls it for a scent                                     *)
EvaluateCondition(condition) ==
    /\ lastOp' = [op |-> "evaluate", condition |-> condition, now |-> clock,
                  result |-> evaluateCondition(condition, store, clock)]
    /\ UNCHANGED <<clock, coreVars, trackEmissionHistory, since, httpVars, triggerHandlers,
                   scentVars, loopVars, sseVars>>

(* SpecThreshold: threshold conditions with every aggregation and every    *)
(* operator, on a store of up to three pheromones on two trails, of two    *)
(* types, tagged and untagged, that decay at different speeds and          *)
(* evaporate                                                               *)

ThresholdEmit(tr, ty, x, d, tg) ==
    [trail |-> tr, type |-> ty, intensity |-> x, decay |-> d, payload |-> "empty",
     tags |-> tg, merge_strategy |-> "new", source_agent |-> "undefined"]

ThresholdEmits ==
    {ThresholdEmit("a", "x", Scale, Immortal, {}),
     ThresholdEmit("a", "x", 2 * Quarter, FastLinear, {"t"}),
     ThresholdEmit("a", "y", 2 * Quarter, defaultDecay, {}),
     ThresholdEmit("b", "x", Scale, Immortal, {"t"})}

Operators == {">=", ">", "<=", "<", "==", "!="}

Thresholds ==
    {[Threshold("a", ty, aggregation, operator, value) EXCEPT !.has_tags = ht, !.tags = AnyTagged] :
        ty \in {"x", "*"}, aggregation \in {"sum", "max", "avg", "count", "any"},
        operator \in Operators, value \in {3 * Quarter, Scale}, ht \in BOOLEAN}

InitThreshold == InitState(FALSE)

(* An evaluation reads the state and changes nothing of it: one is taken   *)
(* after every emit and every passage of time.                             *)
NextThreshold ==
    \/ \E params \in ThresholdEmits : Emit(params)
    \/ lastOp.op # "evaluate" /\ \E condition \in Thresholds : EvaluateCondition(condition)
    \/ Advance

SpecThreshold == InitThreshold /\ [][NextThreshold]_vars

----------------------------------------------------------------------------

(* SpecComposite: composite conditions of depth one to three over two      *)
(* threshold conditions, with no, one and two children ("not" with at most *)
(* one), on a store of up to three pheromones on two trails                *)

OnTrail(tr) == Threshold(tr, "*", "any", ">=", Scale)

Leaves == {OnTrail("a"), OnTrail("b")}

(* the children lists over the conditions first, with a second child from  *)
(* second                                                                  *)
Children(operator, first, second) ==
    {<<>>} \cup {<<c>> : c \in first}
    \cup (IF operator = "not" THEN {} ELSE {<<c, d>> : c \in first, d \in second})

Nested(operators, inner) ==
    UNION {{Composite(operator, kids) : kids \in Children(operator, inner, Leaves) \ {<<>>}} :
              operator \in operators}

Composites ==
    LET depth1 == UNION {{Composite(operator, kids) : kids \in Children(operator, Leaves, Leaves)} :
                            operator \in {"and", "or", "not"}}
        depth2 == Nested({"and", "or", "not"}, depth1)
        depth3 == Nested({"not", "or"}, {c \in depth2 : Len(c.conditions) = 1})
    IN depth1 \cup depth2 \cup depth3

InitComposite == InitState(FALSE)

NextComposite ==
    \/ \E tr \in Trails : Emit(ThresholdEmit(tr, "x", Scale, Immortal, {}))
    \/ store # <<>> /\ Evaporate(EvaporateTrail)
    \/ lastOp.op # "evaluate" /\ \E condition \in Composites : EvaluateCondition(condition)

SpecComposite == InitComposite /\ [][NextComposite]_vars

----------------------------------------------------------------------------

(* SpecPattern: ordered and unordered patterns of one to three steps over  *)
(* two trails, with windows shorter than, equal to and longer than the     *)
(* history window, on the history of emits made as time passes             *)

PatternSteps == {PatternStep(tr, "x") : tr \in Trails}

Sequences ==
    {<<s>> : s \in PatternSteps} \cup {<<s, t>> : s \in PatternSteps, t \in PatternSteps}
    \cup {<<s, t, u>> : s \in PatternSteps, t \in PatternSteps, u \in PatternSteps}

Windows == {emissionHistoryWindow - 1, emissionHistoryWindow, emissionHistoryWindow + 1}

Patterns ==
    {Pattern(sequence, window_ms, ordered) :
        sequence \in Sequences, window_ms \in Windows, ordered \in BOOLEAN}

InitPattern == InitState(TRUE)

NextPattern ==
    \/ \E tr \in Trails : Emit(HistoryEmit(tr, "reinforce"))
    \/ lastOp.op # "evaluate" /\ \E condition \in Patterns : EvaluateCondition(condition)
    \/ Advance

SpecPattern == InitPattern /\ [][NextPattern]_vars

----------------------------------------------------------------------------

(* SpecEmissions: rate conditions over the history of emits on two trails  *)
(* and of two types, creating and merging, between evaporates and          *)
(* collections, as time passes beyond the history window                   *)

RateEmits ==
    {[HistoryEmit(tr, ms) EXCEPT !.type = ty] :
        tr \in Trails, ty \in {"x", "y"}, ms \in {"reinforce", "new"}} \ 
    {[HistoryEmit("b", ms) EXCEPT !.type = "y"] : ms \in {"reinforce", "new"}}

Rates ==
    {Rate("a", ty, metric, window_ms, operator, value) :
        ty \in {"x", "*"}, metric \in {"emissions_per_second", "intensity_delta"},
        window_ms \in Windows, operator \in {">=", "<"}, value \in {1, 1000}}

InitEmissions == InitState(TRUE)

NextEmissions ==
    \/ \E params \in RateEmits : Emit(params)
    \/ store # <<>> /\ Evaporate(EvaporateTrail)
    \/ Gc
    \/ lastOp.op # "evaluate" /\ \E condition \in Rates : EvaluateCondition(condition)
    \/ Advance

SpecEmissions == InitEmissions /\ [][NextEmissions]_vars

----------------------------------------------------------------------------

(* SpecStep: pheromones that decay by steps sorted by at_ms, with and      *)
(* without a step at 0, emitted weak and strong, new and reinforcing, and  *)
(* read by sniff as time passes                                            *)

StepModels ==
    {Step(<<[at_ms |-> 0, intensity |-> Scale]>>),
     Step(<<[at_ms |-> 0, intensity |-> 3 * Quarter], [at_ms |-> 2, intensity |-> Quarter]>>),
     Step(<<[at_ms |-> 1, intensity |-> 2 * Quarter], [at_ms |-> 2, intensity |-> 0]>>)}

StepEmits ==
    {[Signal EXCEPT !.intensity = x, !.decay = d, !.merge_strategy = ms] :
        x \in {2 * Quarter, Scale}, d \in StepModels, ms \in {"new", "reinforce"}} \
    {[Signal EXCEPT !.intensity = Scale, !.decay = d, !.merge_strategy = "new"] : d \in StepModels}

ReadAll == SniffParams({}, {}, 0, -1, DefaultLimit, TRUE)

InitStep == InitState(FALSE)

NextStep ==
    \/ \E params \in StepEmits : Emit(params)
    \/ Sniff(ReadAll)
    \/ Advance

SpecStep == InitStep /\ [][NextStep]_vars

----------------------------------------------------------------------------

(* Claims about the evaluation loop *)

(* the now of the evaluations of log that were met (onRise: and followed   *)
(* an evaluation that was not; prev stands for the one before the first)   *)
RECURSIVE MetAt(_, _, _)
MetAt(log, prev, onRise) ==
    IF log = <<>> THEN <<>>
    ELSE (IF Head(log).met /\ (onRise => ~prev) THEN <<Head(log).now>> ELSE <<>>)
         \o MetAt(Tail(log), Head(log).met, onRise)

(* the number of low->high transitions in a log *)
Rises(log, prev) == Len(MetAt(log, prev, TRUE))

(* C1: for every registered scent, since its registration, any two        *)
(* successive triggers have triggered_at values at least cooldown_ms       *)
(* apart, under every interleaving of ticks (overlapping ones included),   *)
(* emits and evaporates.                                                   *)
C1_CooldownIsMinimumInterval ==
    \A sid \in DOMAIN scents :
        \A i \in 1..(Len(fireLog[sid]) - 1) :
            fireLog[sid][i + 1] - fireLog[sid][i] >= scents[sid].cooldown_ms

(* a scent with a cooldown has triggered twice, and it was skipped by a    *)
(* tick in between; another tick is still awaiting a dispatch              *)
C1_Witness ==
    /\ "q2" \in DOMAIN scents
    /\ scents["q2"].cooldown_ms = 2
    /\ fireLog["q2"] = <<1, 3>>
    /\ Len(obs["q2"]) = 3
    /\ ticks # {}

(* C2 as stated: an edge_rising scent has fired exactly once per low->high *)
(* transition of its condition, as the condition stands on the store at    *)
(* the successive timer ticks since the registration (low before the       *)
(* first), whenever no tick is still awaiting a dispatch and every         *)
(* evaluation of the scent was made by a tick that started after the       *)
(* registration.                                                           *)
C2_Original ==
    ticks = {} =>
        \A sid \in DOMAIN scents :
            /\ scents[sid].trigger_mode = "edge_rising"
            /\ \A i \in 1..Len(evalLog[sid]) :
                  \E j \in 1..Len(obs[sid]) : obs[sid][j].now = evalLog[sid][i].now
            => Len(fireLog[sid]) = Rises(obs[sid], FALSE)

(* C2, amended: an edge_rising scent fires exactly once per low->high      *)
(* transition in the sequence of its own evaluations, i.e. of the ticks    *)
(* that reach it while it is not in cooldown, in the order the loop        *)
(* performs them and starting from "not met" at registration: it fires at  *)
(* an evaluation iff the condition is met there and was not met at the     *)
(* previous evaluation.  A transition that happens between two ticks that  *)
(* skip the scent for cooldown is not seen.                                *)
C2_EdgeRisingPerEvaluation ==
    \A sid \in DOMAIN scents :
        scents[sid].trigger_mode = "edge_rising" =>
            /\ fireLog[sid] = MetAt(evalLog[sid], FALSE, TRUE)
            /\ Len(fireLog[sid]) = Rises(evalLog[sid], FALSE)

(* an edge_rising scent saw met, not met, met and fired twice *)
C2_Witness ==
    /\ "q2" \in DOMAIN scents
    /\ scents["q2"].trigger_mode = "edge_rising"
    /\ Len(evalLog["q2"]) = 3
    /\ ~evalLog["q2"][2].met
    /\ Len(fireLog["q2"]) = 2

(* C3: a level scent is dispatched at an evaluation (a tick that reaches   *)
(* it while it is not in cooldown) if and only if its condition is met at  *)
(* that evaluation: its triggers are exactly its met evaluations.          *)
C3_LevelFiresIffMet ==
    \A sid \in DOMAIN scents :
        scents[sid].trigger_mode = "level" =>
            /\ fireLog[sid] = MetAt(evalLog[sid], FALSE, FALSE)
            /\ \A i \in 1..Len(evalLog[sid]) :
                  evalLog[sid][i].met <=> (\E j \in 1..Len(fireLog[sid]) :
                                              fireLog[sid][j] = evalLog[sid][i].now)

(* a level scent was evaluated as not met, then twice as met *)
C3_Witness ==
    /\ "q1" \in DOMAIN scents
    /\ Len(evalLog["q1"]) = 3
    /\ ~evalLog["q1"][1].met
    /\ fireLog["q1"] = <<2, 3>>

(* a tick that started with the level scent sid registered and has not     *)
(* reached it yet, at which sid is not in cooldown and its condition is    *)
(* met                                                                     *)
Owing(sid) ==
    /\ sid \in DOMAIN scents
    /\ scents[sid].trigger_mode = "level"
    /\ \E t \in ticks :
          /\ \E j \in 1..Len(obs[sid]) : obs[sid][j].now = t.now
          /\ \E i \in (t.pos + 1)..Len(scentOrder) : scentOrder[i] = sid
          /\ ~inCooldown(scents[sid], t.now)
          /\ evaluateCondition(scents[sid].condition, t.pheromones, t.now).met

(* C4 as stated: once the loop is started, a level scent whose condition   *)
(* stays met is dispatched at every tick at which it is not in cooldown,   *)
(* even if the handler of another scent never completes: a tick that owes  *)
(* the scent a trigger eventually dispatches it (or another tick does).    *)
C4_Original == \A sid \in ScentIds : Owing(sid) ~> ~Owing(sid)

(* C5 as stated: no two deliveries for the same scent_id are in flight at  *)
(* the same time.                                                          *)
C5_Original ==
    \A t1, t2 \in ticks : t1.awaiting = t2.awaiting => t1 = t2

----------------------------------------------------------------------------
(* Claims about the SSE transport *)

(* the sbp/trigger notifications a stream has carried *)
Notifications(c) == SelectSeq(wire[c], LAMBDA e : e.event = "message")

Carries(e, payload) ==
    /\ e.data.method = "sbp/trigger"
    /\ e.data.scent_id = payload.scent_id
    /\ e.data.triggered_at = payload.triggered_at

(* C6 as stated: every trigger of a scent that fires while a session that  *)
(* has subscribed to it has an open stream is written as exactly one       *)
(* sbp/trigger event to that stream, whatever another session has          *)
(* subscribed, unsubscribed or disconnected.                               *)
C6_Original ==
    \A c \in DOMAIN due :
        \A k \in 1..Len(due[c]) :
            Cardinality({n \in 1..Len(Notifications(c)) :
                            Carries(Notifications(c)[n], due[c][k])}) = 1

(* C7 as stated: when the connection of an SSE client has closed, its      *)
(* record is absent from the client map, nothing is written to it, and no  *)
(* scent the session has subscribed to is still bound to a handler of the  *)
(* session, whether the subscribe came before or after the stream opened.  *)
C7_Original ==
    lastOp.op = "sse_close" =>
        /\ lastOp.client \notin ClientIds(sseClients)
        /\ lastOp.client \notin DOMAIN wire
        /\ \A sid \in ScentIds :
              <<lastOp.session, sid>> \in subscribed =>
                  ~(sid \in DOMAIN triggerHandlers
                    /\ triggerHandlers[sid] = SseHandler(lastOp.session))

(* C8 as stated: a stream opened with Last-Event-ID carries the triggers   *)
(* its session missed while it had no stream, in order, before any other   *)
(* notification.                                                           *)
C8_Original ==
    \A c \in DOMAIN owed :
        \A k \in 1..Len(owed[c]) :
            /\ k <= Len(Notifications(c))
            /\ Carries(Notifications(c)[k], owed[c][k])

----------------------------------------------------------------------------
(* Claims about emit *)

Clamp01(x) == IF x < 0 THEN 0 ELSE IF x > Scale THEN Scale ELSE x

EmitMerged == lastOp.op = "emit" /\ lastOp.existing # 0

(* C9: an emit with a strategy other than "new" that finds a matching,     *)
(* non-evaporated pheromone leaves it as the strategy says: reinforce and  *)
(* replace set initial_intensity to the clamped input (replace also takes  *)
(* the payload and the tags of the emit), max sets it to the maximum of    *)
(* the decayed intensity and the clamped input, add to their sum capped at *)
(* 1; last_reinforced_at is now, previous_intensity is the decayed         *)
(* intensity just before the merge, and the action is reinforced,          *)
(* replaced, merged, merged.                                               *)
C9_MergeFollowsStrategy ==
    EmitMerged =>
        LET p == lastOp.params
            cur == heap[lastOp.existing]
            prev == computeIntensity(lastOp.before, lastOp.now)
            cl == Clamp01(p.intensity)
            ms == p.merge_strategy
        IN /\ ms # "new"
           /\ cur.last_reinforced_at = lastOp.now
           /\ lastOp.result.previous_intensity = prev
           /\ ms = "reinforce" =>
                 cur.initial_intensity = cl /\ lastOp.result.action = "reinforced"
           /\ ms = "replace" =>
                 /\ cur.initial_intensity = cl
                 /\ cur.payload = p.payload
                 /\ cur.tags = p.tags
                 /\ lastOp.result.action = "replaced"
           /\ ms = "max" =>
                 /\ cur.initial_intensity = (IF prev >= cl THEN prev ELSE cl)
                 /\ lastOp.result.action = "merged"
           /\ ms = "add" =>
                 /\ cur.initial_intensity = (IF prev + cl > Scale THEN Scale ELSE prev + cl)
                 /\ lastOp.result.action = "merged"

(* an "add" merge into a pheromone that has decayed, but not to zero *)
C9_Witness ==
    /\ EmitMerged
    /\ lastOp.params.merge_strategy = "add"
    /\ lastOp.result.previous_intensity > 0
    /\ lastOp.result.previous_intensity < lastOp.before.initial_intensity
    /\ heap[lastOp.existing].initial_intensity < Scale

(* C10 as stated: a merging emit returns the id of the existing pheromone  *)
(* and leaves the store size unchanged; an emit with "new" inserts a       *)
(* pheromone whose id no pheromone of the store had and the store grows by *)
(* exactly one.                                                            *)
C10_Original ==
    lastOp.op = "emit" =>
        /\ lastOp.existing # 0 =>
              /\ lastOp.result.pheromone_id = lastOp.existing
              /\ lastOp.existing \in SeqRange(lastOp.pre_store)
              /\ Len(store) = Len(lastOp.pre_store)
        /\ lastOp.params.merge_strategy = "new" =>
              /\ lastOp.result.action = "created"
              /\ lastOp.result.pheromone_id \notin SeqRange(lastOp.pre_store)
              /\ lastOp.result.pheromone_id \in SeqRange(store)
              /\ Len(store) = Len(lastOp.pre_store) + 1

(* C10, amended: as C10, but the store grows by exactly one only when the  *)
(* insertion does not take the size above maxPheromones; when it does, gc  *)
(* runs inside the same emit, the size is at most the old size plus one    *)
(* and no evaporated pheromone (the new one included) is left in the store.*)
C10_EmitIdentity ==
    lastOp.op = "emit" =>
        /\ lastOp.existing # 0 =>
              /\ lastOp.result.pheromone_id = lastOp.existing
              /\ lastOp.existing \in SeqRange(lastOp.pre_store)
              /\ store = lastOp.pre_store
        /\ lastOp.params.merge_strategy = "new" =>
              /\ lastOp.result.action = "created"
              /\ lastOp.result.pheromone_id \notin SeqRange(lastOp.pre_store)
              /\ IF Len(lastOp.pre_store) + 1 <= maxPheromones
                 THEN /\ store = Append(lastOp.pre_store, lastOp.result.pheromone_id)
                      /\ Len(store) = Len(lastOp.pre_store) + 1
                 ELSE /\ Len(store) <= Len(lastOp.pre_store) + 1
                      /\ SeqRange(store) \subseteq
                            SeqRange(lastOp.pre_store) \cup {lastOp.result.pheromone_id}
                      /\ \A id \in SeqRange(store) : ~isEvaporated(heap[id], lastOp.now)

(* a "new" emit beside a pheromone with the same trail, type and payload *)
C10_Witness ==
    /\ lastOp.op = "emit"
    /\ lastOp.params.merge_strategy = "new"
    /\ Len(lastOp.pre_store) = 1
    /\ Len(store) = 2
    /\ heap[store[1]].payload = heap[store[2]].payload

RECURSIVE SameValue(_, _)
(* two JSON values are equal at every level, whatever the property order *)
SameValue(a, b) ==
    IF a.t = "num" \/ b.t = "num" THEN a = b
    ELSE /\ SeqRange(a.keys) = SeqRange(b.keys)
         /\ \A i \in 1..Len(a.keys) : \A j \in 1..Len(b.keys) :
               a.keys[i] = b.keys[j] => SameValue(a.vals[i], b.vals[j])

SamePayload(p, q) == SameValue(PayloadTree(p), PayloadTree(q))

(* the stored, non-evaporated pheromones on the trail and type of an emit *)
Candidates(params) ==
    {id \in SeqRange(store) :
       /\ heap[id].trail = params.trail
       /\ heap[id].type = params.type
       /\ ~isEvaporated(heap[id], clock)}

(* C12: an emit with a strategy other than "new" merges into an existing,  *)
(* non-evaporated pheromone of the same trail and type if and only if the  *)
(* two payloads are equal at every structural level up to property order;  *)
(* a difference in a key or a value, nested ones included, never matches.  *)
C12_Original ==
    [][\A params \in EmitInputs :
         (Emit(params) /\ params.merge_strategy # "new") =>
            /\ lastOp'.existing # 0 <=>
                  \E id \in Candidates(params) : SamePayload(heap[id].payload, params.payload)
            /\ lastOp'.existing # 0 =>
                  SamePayload(heap[lastOp'.existing].payload, params.payload)]_vars

----------------------------------------------------------------------------
(* Claims about sniff and evaporate *)

(* the snapshots a sniff reported for the pheromone the latest emit returned *)
ReportedSinceEmit ==
    IF lastOp.op = "sniff" /\ since.emit.pheromone_id # 0
    THEN {lastOp.result.pheromones[i] : i \in {k \in 1..Len(lastOp.result.pheromones) :
              lastOp.result.pheromones[k].id = since.emit.pheromone_id}}
    ELSE {}

(* the largest intensity a decay model can give by itself: the highest     *)
(* step of a step decay, 0 for the other models                            *)
StepCeiling(dm) ==
    IF dm.type = "step" /\ dm.steps # <<>>
    THEN SetMax({dm.steps[i].intensity : i \in 1..Len(dm.steps)})
    ELSE 0

C14_EvaporatedTrailIsEmpty ==
    (lastOp.op = "sniff" /\ \E T \in since.cleared : lastOp.params.trails = {T}) =>
        /\ lastOp.result.pheromones = <<>>
        /\ DOMAIN lastOp.result.aggregates = {}

(* a sniff that includes evaporated pheromones, after trail a was cleared  *)
(* and time has passed, while the other trail still holds a pheromone and  *)
(* the pheromone of the latest emit is gone                                *)
C14_Witness ==
    /\ lastOp.op = "sniff"
    /\ lastOp.params.trails = {"a"}
    /\ lastOp.params.include_evaporated
    /\ "a" \in since.cleared
    /\ since.emit.pheromone_id # 0
    /\ since.emit.pheromone_id \notin SeqRange(store)
    /\ \E id \in SeqRange(store) : heap[id].trail = "b"
    /\ lastOp.now > 1

(* a pheromone matches every filter the parameters supply *)
MatchesSupplied(p, params, now) ==
    /\ params.trail # "undefined" => p.trail = params.trail
    /\ params.types # {} => p.type \in params.types
    /\ params.older_than_ms # -1 => now - p.emitted_at >= params.older_than_ms
    /\ params.below_intensity # -1 => computeIntensity(p, now) < params.below_intensity
    /\ params.has_tags => matchTags(p.tags, params.tags)

(* C15: evaporate removes exactly the pheromones that match every supplied *)
(* filter: the store afterwards is the store before without them, in the   *)
(* same order, evaporated_count is the decrease of the store size,         *)
(* trails_affected is the set of the trails of the removed pheromones,     *)
(* every remaining pheromone is unchanged, and the scent table, the        *)
(* trigger handlers and the emission history are unchanged.                *)
C15_EvaporateRemovesExactlyMatches ==
    [][\A params \in FilterInputs :
         Evaporate(params) =>
            LET removed == {id \in SeqRange(store) : MatchesSupplied(heap[id], params, clock)}
            IN /\ store' = SelectSeq(store, LAMBDA id : id \notin removed)
               /\ lastOp'.result.evaporated_count = Len(store) - Len(store')
               /\ lastOp'.result.evaporated_count = Cardinality(removed)
               /\ lastOp'.result.trails_affected = {heap[id].trail : id \in removed}
               /\ \A id \in SeqRange(store') : heap'[id] = heap[id]
               /\ UNCHANGED <<scents, scentOrder, triggerHandlers, emissionHistory>>]_vars

(* an evaporate with trail, types, older_than_ms and below_intensity that  *)
(* removed one pheromone of three and left one of the same trail, beside a *)
(* registered scent and a non-empty emission history                       *)
C15_Witness ==
    /\ lastOp.op = "evaporate"
    /\ lastOp.params = Filter("a", {"x"}, 1, 2 * Quarter, NoFilter)
    /\ Len(lastOp.pre_store) = 3
    /\ lastOp.result.evaporated_count = 1
    /\ lastOp.result.trails_affected = {"a"}
    /\ \E id \in SeqRange(store) : heap[id].trail = "a"
    /\ scents # <<>>
    /\ emissionHistory # <<>>

----------------------------------------------------------------------------
(* Claims about scents *)

(* the entries of the scents Map, deleted ones left out *)
Entries == SelectSeq(scentOrder, LAMBDA x : x # Hole)

(* C16: registerScent is an upsert.  The scent table holds one entry per   *)
(* scent_id; a scent_id enters the table only by a registerScent that      *)
(* returns "registered" and leaves it only by a deregisterScent that       *)
(* returns "deregistered", and a registerScent for an id in the table      *)
(* returns "updated"; the scent stored by a call is given by the params of *)
(* that call alone, with last_triggered_at null and last_condition_met     *)
(* false, whatever was registered or triggered before, and the other       *)
(* entries are unchanged.                                                  *)
C16_RegisterScentIsUpsert ==
    /\ [](/\ \A i, j \in 1..Len(Entries) : Entries[i] = Entries[j] => i = j
          /\ SeqRange(Entries) = DOMAIN scents)
    /\ [][\A params \in UpsertInputs :
            RegisterScent(params) =>
               LET sid == params.scent_id
               IN /\ lastOp'.status = IF sid \in DOMAIN scents THEN "updated" ELSE "registered"
                  /\ DOMAIN scents' = DOMAIN scents \cup {sid}
                  /\ scents'[sid] =
                        [scent_id |-> sid, agent_endpoint |-> params.agent_endpoint,
                         condition |-> params.condition, cooldown_ms |-> params.cooldown_ms,
                         trigger_mode |-> params.trigger_mode,
                         last_triggered_at |-> 0, last_condition_met |-> FALSE]
                  /\ \A other \in DOMAIN scents \ {sid} : scents'[other] = scents[other]]_vars
    /\ [][\A sid \in ScentIds :
            /\ (sid \notin DOMAIN scents /\ sid \in DOMAIN scents') =>
                  (lastOp'.op = "register_scent" /\ lastOp'.scent_id = sid
                     /\ lastOp'.status = "registered")
            /\ (sid \in DOMAIN scents /\ sid \notin DOMAIN scents') =>
                  (lastOp'.op = "deregister_scent" /\ lastOp'.scent_id = sid
                     /\ lastOp'.status = "deregistered")]_vars

(* q1 registered again with other params while a tick that triggered it is *)
(* still waiting for the delivery: the stored scent has no trigger history *)
C16_Witness ==
    /\ lastOp.op = "register_scent"
    /\ lastOp.scent_id = "q1"
    /\ lastOp.status = "updated"
    /\ \E t \in ticks : t.awaiting = "q1"
    /\ scents["q1"].trigger_mode = "edge_rising"
    /\ scents["q1"].cooldown_ms = 2
    /\ scents["q1"].last_triggered_at = 0
    /\ ~scents["q1"].last_condition_met

(* a deregisterScent that removed a scent whose first registration was the *)
(* operation just before it, or just before an onTrigger for the scent     *)
RoundTripDone ==
    /\ lastOp.op = "deregister_scent"
    /\ lastOp.status = "deregistered"
    /\ lastOp.round.status = "registered"

(* C17 as stated: for a scent_id that is not registered, registerScent     *)
(* followed by deregisterScent, with or without a handler attached in      *)
(* between, leaves the scent table, the trigger-handler table, the         *)
(* pheromone store and the emission history as they were before the        *)
(* register.                                                               *)
C17_Original ==
    RoundTripDone =>
        /\ scents = lastOp.round.pre.scents
        /\ triggerHandlers = lastOp.round.pre.triggerHandlers
        /\ store = lastOp.round.pre.store
        /\ emissionHistory = lastOp.round.pre.emissionHistory

(* C17, amended: the scent table, the store and the emission history are   *)
(* as before the register, and the trigger-handler table is the one before *)
(* the register without any handler of the scent_id: a handler attached in *)
(* between is removed, and so is one attached before the register.         *)
C17_RoundTripUpToHandler ==
    RoundTripDone =>
        /\ scents = lastOp.round.pre.scents
        /\ triggerHandlers = Without(lastOp.round.pre.triggerHandlers, lastOp.scent_id)
        /\ store = lastOp.round.pre.store
        /\ emissionHistory = lastOp.round.pre.emissionHistory

(* a round trip of q1 beside the registered q2 and a stored pheromone,     *)
(* around a handler that was attached before q1 was registered             *)
C17_Witness ==
    /\ RoundTripDone
    /\ lastOp.scent_id = "q1"
    /\ "q1" \in DOMAIN lastOp.round.pre.triggerHandlers
    /\ "q2" \in DOMAIN scents
    /\ store # <<>>
    /\ emissionHistory # <<>>

(* the stored pheromones that pass every filter of a sniff *)
Filtered(params, now) ==
    {id \in SeqRange(store) :
       LET p == heap[id]
       IN /\ params.trails # {} => p.trail \in params.trails
          /\ params.types # {} => p.type \in params.types
          /\ ~params.include_evaporated => ~isEvaporated(p, now)
          /\ computeIntensity(p, now) >= params.min_intensity
          /\ params.max_age_ms # -1 => now - p.emitted_at <= params.max_age_ms
          /\ params.has_tags => matchTags(p.tags, params.tags)}

RECURSIVE SumIntensity(_, _)
SumIntensity(ids, now) ==
    IF ids = {} THEN 0
    ELSE LET id == CHOOSE x \in ids : TRUE
         IN computeIntensity(heap[id], now) + SumIntensity(ids \ {id}, now)

RECURSIVE SumCounts(_, _)
SumCounts(aggregates, keys) ==
    IF keys = {} THEN 0
    ELSE LET key == CHOOSE x \in keys : TRUE
         IN aggregates[key].count + SumCounts(aggregates, keys \ {key})

----------------------------------------------------------------------------
(* Claims about gc *)

Evaporated == {id \in SeqRange(store) : isEvaporated(heap[id], clock)}

(* C19 as stated, the part about emit: after any emit either the store     *)
(* size is at most maxPheromones or the store holds no evaporated          *)
(* pheromone.                                                              *)
C19_Original ==
    lastOp.op = "emit" => (Len(store) <= maxPheromones \/ Evaporated = {})

(* C19, amended: gc() deletes exactly the evaporated pheromones, leaves    *)
(* the others unchanged and in order, and returns the number deleted; an   *)
(* emit that creates a pheromone and takes the size above maxPheromones    *)
(* runs it, so after a creating emit either the size is at most            *)
(* maxPheromones or no stored pheromone is evaporated, and the new         *)
(* pheromone is in the store unless it is itself evaporated; an emit that  *)
(* merges runs no gc and leaves the store as it is.                        *)
C19_GcRemovesExactlyEvaporated ==
    /\ [][Gc => /\ store' = SelectSeq(store, LAMBDA id : id \notin Evaporated)
                /\ lastOp'.result = Cardinality(Evaporated)
                /\ \A id \in SeqRange(store') : heap'[id] = heap[id]]_vars
    /\ [][\A params \in SniffEmitInputs :
            Emit(params) =>
               LET id == lastOp'.result.pheromone_id
                   live == ~BelowFloor(Clamp01(params.intensity), TtlFloorNum)
               IN IF lastOp'.result.action = "created"
                  THEN /\ id \notin SeqRange(store)
                       /\ store' = IF Len(store) + 1 > maxPheromones
                                   THEN SelectSeq(store, LAMBDA x : x \notin Evaporated)
                                          \o (IF live THEN <<id>> ELSE <<>>)
                                   ELSE Append(store, id)
                       /\ live => id \in SeqRange(store')
                       /\ \A x \in SeqRange(store') \ {id} : heap'[x] = heap[x]
                  ELSE store' = store]_vars
    /\ []((lastOp.op = "emit" /\ lastOp.result.action = "created") =>
            (Len(store) <= maxPheromones \/ Evaporated = {}))

(* a creating emit onto a full store with an evaporated pheromone: gc ran, *)
(* the evaporated one is gone and the new, live one is stored              *)
C19_Witness ==
    /\ lastOp.op = "emit"
    /\ lastOp.result.action = "created"
    /\ Len(lastOp.pre_store) = maxPheromones
    /\ Len(store) = maxPheromones
    /\ lastOp.result.pheromone_id \in SeqRange(store)
    /\ \E id \in SeqRange(lastOp.pre_store) : id \notin SeqRange(store)

----------------------------------------------------------------------------
(* Claims about the emission history *)

(* C20: with history tracking enabled every emit, creating or merging,     *)
(* appends exactly one record (trail, type, now) to the records that are   *)
(* still in the window, and right after an emit no record is older than    *)
(* now - emissionHistoryWindow; with tracking disabled the history stays   *)
(* empty.                                                                  *)
C20_HistoryAppendAndPrune ==
    /\ [][\A params \in HistoryEmitInputs :
            Emit(params) =>
               IF trackEmissionHistory
               THEN emissionHistory' =
                      Append(SelectSeq(emissionHistory,
                                       LAMBDA e : ~(e.timestamp < clock - emissionHistoryWindow)),
                             [trail |-> params.trail, type |-> params.type, timestamp |-> clock])
               ELSE emissionHistory' = emissionHistory]_vars
    /\ []((lastOp.op = "emit" /\ trackEmissionHistory) =>
            \A i \in 1..Len(emissionHistory) :
                ~(emissionHistory[i].timestamp < lastOp.now - emissionHistoryWindow))
    /\ [](~trackEmissionHistory => emissionHistory = <<>>)

(* a merging emit past the window of the emit that created the pheromone:  *)
(* the history holds the record of the merging emit alone                  *)
C20_Witness ==
    /\ trackEmissionHistory
    /\ lastOp.op = "emit"
    /\ lastOp.existing # 0
    /\ lastOp.now - heap[lastOp.existing].emitted_at > emissionHistoryWindow
    /\ emissionHistory = <<[trail |-> lastOp.params.trail, type |-> lastOp.params.type,
                             timestamp |-> lastOp.now]>>

----------------------------------------------------------------------------
(* Claims about decay *)

(* C21: decay is monotone.  For a stored pheromone with an exponential,    *)
(* linear or step decay model that is not reinforced while time passes     *)
(* from t1 to t2, computeIntensity at t2 is at most computeIntensity at    *)
(* t1, and a pheromone evaporated at t1 is still evaporated at t2.         *)
C21_Original ==
    [][\A id \in SeqRange(store) \cap SeqRange(store') :
         (/\ heap'[id] = heap[id]
          /\ heap[id].decay_model.type \in {"exponential", "linear", "step"}
          /\ clock' >= clock) =>
            /\ computeIntensity(heap[id], clock') <= computeIntensity(heap[id], clock)
            /\ isEvaporated(heap[id], clock) => isEvaporated(heap[id], clock')]_vars

----------------------------------------------------------------------------
(* Claims about the frame of a merging emit *)

----------------------------------------------------------------------------
(* Claims about POST /sbp *)

(* the error the validation of a request asks for, 0 for none *)
Expected(body) ==
    IF validateEnvelope(body) # 0 THEN -32600
    ELSE IF body.method \notin Methods THEN -32601
    ELSE validateParams(body.method, body.params)

(* C23: a POST whose envelope is invalid is answered with -32600, one with *)
(* a valid envelope and an unknown method with -32601, one with a valid    *)
(* envelope for a known method and params that violate its schema with     *)
(* -32602; in the three cases no core operation runs: the pheromone store, *)
(* the scent table and the emission history are unchanged.                 *)
C23_Original ==
    [][\A sessionHeader \in SessionHeaders : \A body \in PostBodies :
         (Post(sessionHeader, body) /\ Expected(body) # 0) =>
            /\ reply'.error = Expected(body)
            /\ UNCHANGED <<store, heap, scents, scentOrder, emissionHistory>>]_vars

(* C24: every reply to a POST carries Sbp-Session-Id: the value of the     *)
(* request when it had one, and then no session is created; else a fresh   *)
(* id, carried by no session before, which is recorded in the sessions.    *)
C24_Original ==
    [][\A sessionHeader \in SessionHeaders : \A body \in PostBodies :
         Post(sessionHeader, body) =>
            /\ reply'.session # "undefined"
            /\ sessionHeader # "undefined" =>
                  (reply'.session = sessionHeader /\ sessions' = sessions)
            /\ sessionHeader = "undefined" =>
                  (reply'.session \notin sessions /\ sessions' = sessions \cup {reply'.session})]_vars

----------------------------------------------------------------------------
(* Claims about the numbering of SSE events *)

(* the events the step writes to the stream of client c *)
Written(c) ==
    IF c \in DOMAIN wire
    THEN SubSeq(wire'[c], Len(wire[c]) + 1, Len(wire'[c]))
    ELSE wire'[c]

(* C25: the event ids written to one SSE stream are strictly increasing,   *)
(* no event id is written twice on the streams of the server (each event   *)
(* written takes an id above every id used before), and after each write   *)
(* the lastEventId of the client is the id of the last event written to    *)
(* its stream.                                                             *)
C25_EventNumbering ==
    /\ [](\A i \in 1..Len(sseClients) :
            LET w == wire[sseClients[i].id]
            IN /\ \A j \in 1..(Len(w) - 1) : w[j].id < w[j + 1].id
               /\ \A j \in 1..Len(w) : w[j].id <= eventCounter
               /\ Len(w) > 0
               /\ sseClients[i].lastEventId = w[Len(w)].id)
    /\ [](\A c \in DOMAIN wire : \A d \in DOMAIN wire \ {c} :
            \A j \in 1..Len(wire[c]) : \A k \in 1..Len(wire[d]) :
               wire[c][j].id # wire[d][k].id)
    /\ [][\A c \in DOMAIN wire' : \A j \in 1..Len(Written(c)) :
             Written(c)[j].id > eventCounter]_vars

(* two open streams have each carried a trigger after their first event *)
C25_Witness ==
    \E i \in 1..Len(sseClients) : \E k \in 1..Len(sseClients) :
       /\ i # k
       /\ Len(wire[sseClients[i].id]) >= 2
       /\ Len(wire[sseClients[k].id]) >= 2

----------------------------------------------------------------------------
(* Claims about the hooks *)

(* the Authorization headers of the form "Bearer <key>" with a configured  *)
(* key; the scheme of an HTTP credential is case-insensitive               *)
Credentials(keys) == {<<scheme, key>> : scheme \in {"Bearer", "bearer", "BEARER"}, key \in keys}

(* the reply of the hook, and nothing of the server changed *)
Unauthorized ==
    /\ reply'.status = 401
    /\ reply'.error = -32005
    /\ UNCHANGED <<store, heap, emissionHistory, scents, scentOrder, triggerHandlers, sessions,
                   sseClients>>

Found(key) ==
    IF key \in DOMAIN buckets THEN buckets[key]
    ELSE [tokens |-> options.rateLimit.maxRequests * options.rateLimit.windowMs,
          lastRefill |-> clock]

OneToken == options.rateLimit.windowMs

Full == options.rateLimit.maxRequests * options.rateLimit.windowMs

(* the tokens the request finds after the linear refill *)
Available(key) ==
    LET grown == Found(key).tokens + (clock - Found(key).lastRefill) * options.rateLimit.maxRequests
    IN IF grown > Full THEN Full ELSE grown

(* C27: every bucket holds between 0 and maxRequests tokens; a request is  *)
(* let through iff its agent's bucket (Sbp-Agent-Id, else ip) holds at     *)
(* least one token after the linear refill, and then takes exactly one; a  *)
(* request that finds less than one token is answered 429 with -32004 and  *)
(* a positive retry_after_ms and takes none; the buckets of other agents   *)
(* are unchanged; requests to /health and OPTIONS requests take no token.  *)
C27_TokenBucket ==
    /\ [](\A key \in DOMAIN buckets : buckets[key].tokens >= 0 /\ buckets[key].tokens <= Full)
    /\ [][\A target \in Targets : \A agent \in Agents :
            RateRequest(target[1], target[2], agent[1], agent[2], "s1", RateBody) =>
              IF target[2][1] = "/health" \/ target[1] = "OPTIONS"
              THEN buckets' = buckets /\ reply'.status # 429
              ELSE LET key == IF agent[1] # "undefined" THEN agent[1] ELSE agent[2]
                   IN /\ \A other \in DOMAIN buckets \ {key} :
                           other \in DOMAIN buckets' /\ buckets'[other] = buckets[other]
                      /\ DOMAIN buckets' = DOMAIN buckets \cup {key}
                      /\ IF Available(key) >= OneToken
                         THEN /\ reply'.status # 429
                              /\ Route(target[1], target[2], "s1", RateBody)
                              /\ buckets'[key].tokens = Available(key) - OneToken
                         ELSE /\ reply'.status = 429
                              /\ reply'.error = -32004
                              /\ reply'.retry_after_ms > 0
                              /\ reply'.retry_after_ms * options.rateLimit.maxRequests
                                    >= OneToken - Available(key)
                              /\ buckets'[key].tokens = Available(key)
                              /\ Untouched]_vars

(* a request was rejected on a fraction of a token, beside the bucket of   *)
(* another agent that was last used before                                 *)
C27_Witness ==
    /\ reply.status = 429
    /\ \E key \in DOMAIN buckets :
          /\ buckets[key].tokens > 0
          /\ buckets[key].tokens < OneToken
          /\ buckets[key].lastRefill = clock
          /\ \E other \in DOMAIN buckets \ {key} : buckets[other].lastRefill < clock

----------------------------------------------------------------------------
(* Claims about the dispatch of triggers *)

(* the scents the step fires, and the deliveries the step leaves awaited *)
FiredNow == {sid \in DOMAIN fireLog \cap DOMAIN fireLog' : Len(fireLog'[sid]) > Len(fireLog[sid])}

Begun(sid, via) == {t \in ticks' \ ticks : t.awaiting = sid /\ t.via = via}

(* C28: a trigger of a scent that has a local handler at dispatch time     *)
(* invokes the handler and makes no HTTP POST; a trigger of a scent        *)
(* without handler makes exactly one HTTP POST; never both, never neither. *)
C28_OneDeliveryPath ==
    [][\A sid \in FiredNow :
         IF sid \in DOMAIN triggerHandlers
         THEN Cardinality(Begun(sid, "handler")) = 1 /\ Begun(sid, "http") = {}
         ELSE Cardinality(Begun(sid, "http")) = 1 /\ Begun(sid, "handler") = {}]_vars

(* two deliveries of one scent are awaited, one POSTed before the handler  *)
(* was registered and one handed to the handler                            *)
C28_Witness ==
    \E t1 \in ticks : \E t2 \in ticks :
       /\ t1.awaiting = t2.awaiting
       /\ t1.via = "http"
       /\ t2.via = "handler"
       /\ t1.now < t2.now

(* the cooldown test of the loop, on the fields of the stored scent *)
Cooling(sid, now) ==
    /\ scents[sid].last_triggered_at # 0
    /\ now - scents[sid].last_triggered_at < scents[sid].cooldown_ms

(* the step appends an evaluation at now to the log of the scent *)
EvaluatedAt(sid, now) ==
    /\ Len(evalLog'[sid]) = Len(evalLog[sid]) + 1
    /\ evalLog'[sid][Len(evalLog'[sid])].now = now

(* the delivery awaited by tick t ended in an error *)
Failures(t) == Outcomes(t.via) \ {"returned", "answered"}

(* C29: when a handler throws or the HTTP delivery fails or times out, the *)
(* error is swallowed: the trigger stays recorded and last_triggered_at of *)
(* the scent is not touched, every remaining scent of the tick that is not *)
(* in cooldown is evaluated (or is still ahead of the tick, which awaits   *)
(* the next delivery), and the timer of the loop stays set.                *)
C29_FailuresSwallowed ==
    [][\A t \in ticks : \A outcome \in Failures(t) :
         DeliveryEnds(t, outcome) =>
            /\ scents'[t.awaiting].last_triggered_at = scents[t.awaiting].last_triggered_at
            /\ fireLog'[t.awaiting] = fireLog[t.awaiting]
            /\ evaluationTimer' = evaluationTimer
            /\ \A pos \in (t.pos + 1)..Len(scentOrder) :
                  LET sid == scentOrder[pos]
                  IN \/ sid = Hole
                     \/ Cooling(sid, t.now)
                     \/ EvaluatedAt(sid, t.now)
                     \/ \E next \in ticks' : next.now = t.now /\ next.pos < pos]_vars

(* the handler of the first scent threw, and the tick went on to fire the  *)
(* second scent                                                            *)
C29_Witness ==
    /\ lastOp.op = "settled"
    /\ lastOp.outcome = "threw"
    /\ \E next \in ticks :
          /\ next.now = lastOp.tick.now
          /\ next.pos > lastOp.tick.pos
          /\ next.awaiting # lastOp.tick.awaiting

(* the part of the scent table a run of the loop walks in this step: from  *)
(* the first entry for a timer callback, from behind the awaited scent for *)
(* a resumed tick, up to the scent whose delivery it then awaits           *)
Walk ==
    LET from == IF lastOp'.op = "tick" THEN 1 ELSE lastOp'.tick.pos + 1
        now == IF lastOp'.op = "tick" THEN lastOp'.now ELSE lastOp'.tick.now
        stops == {t.pos : t \in {t \in ticks' \ ticks : t.now = now}}
        to == IF stops = {} THEN Len(scentOrder) ELSE SetMin(stops)
    IN [now |-> now,
        pheromones |-> IF lastOp'.op = "tick" THEN store ELSE lastOp'.tick.pheromones,
        sids |-> {scentOrder[pos] : pos \in from..to} \ {Hole}]

(* C30: in a run of the loop, every scent that is not skipped for cooldown *)
(* gets last_condition_met set to the result of the tick's evaluation,     *)
(* fired or not, and last_triggered_at set to the tick's now if it fires   *)
(* and left alone if not; a scent skipped for cooldown, and a scent the    *)
(* run does not reach, keeps both.                                         *)
C30_EvaluationUpdates ==
    [][lastOp'.op \in {"tick", "settled"} =>
         \A sid \in DOMAIN scents :
            IF sid \in Walk.sids /\ ~Cooling(sid, Walk.now)
            THEN /\ scents'[sid].last_condition_met =
                       evaluateCondition(scents[sid].condition, Walk.pheromones, Walk.now).met
                 /\ scents'[sid].last_triggered_at =
                       IF sid \in FiredNow THEN Walk.now ELSE scents[sid].last_triggered_at
            ELSE /\ scents'[sid] = scents[sid]
                 /\ sid \notin FiredNow]_vars

(* a timer callback has skipped the edge_rising scent, in cooldown after   *)
(* its trigger; the callback before the trigger had evaluated it without   *)
(* firing                                                                  *)
C30_Witness ==
    /\ lastOp.op = "tick"
    /\ "q2" \in DOMAIN scents
    /\ Cooling("q2", lastOp.now)
    /\ Len(fireLog["q2"]) = 1
    /\ Len(evalLog["q2"]) = 2
    /\ evalLog["q2"][2].now < lastOp.now
    /\ ~evalLog["q2"][1].met

----------------------------------------------------------------------------
(* Claims about falling edges *)

(* the now of the evaluations of log that were not met and followed an     *)
(* evaluation that was met; prev stands for the one before the first       *)
RECURSIVE FallsAt(_, _)
FallsAt(log, prev) ==
    IF log = <<>> THEN <<>>
    ELSE (IF ~Head(log).met /\ prev THEN <<Head(log).now>> ELSE <<>>)
         \o FallsAt(Tail(log), Head(log).met)

(* C31: an edge_falling scent fires at an evaluation (a tick that reaches  *)
(* it while it is not in cooldown) if and only if its condition is not met *)
(* there and was met at its previous evaluation; the evaluations count     *)
(* from the latest registration, before which the condition stands as not  *)
(* met.  So it has not fired before an evaluation since the registration   *)
(* was met, and it has fired once per met -> not met step of its           *)
(* evaluations.                                                            *)
C31_EdgeFalling ==
    \A sid \in DOMAIN scents :
        scents[sid].trigger_mode = "edge_falling" =>
            /\ fireLog[sid] = FallsAt(evalLog[sid], FALSE)
            /\ \A i \in 1..Len(fireLog[sid]) :
                  \E j \in 1..Len(evalLog[sid]) :
                      /\ evalLog[sid][j].met
                      /\ j < Len(evalLog[sid])
                      /\ ~evalLog[sid][j + 1].met
                      /\ evalLog[sid][j + 1].now = fireLog[sid][i]
            /\ scents[sid].last_condition_met =
                  (evalLog[sid] # <<>> /\ evalLog[sid][Len(evalLog[sid])].met)

(* an edge_falling scent with a cooldown was evaluated as met, not met and  *)
(* not met again, and fired at the second evaluation only                  *)
C31_Witness ==
    /\ "q2" \in DOMAIN scents
    /\ scents["q2"].trigger_mode = "edge_falling"
    /\ Len(evalLog["q2"]) = 3
    /\ evalLog["q2"][1].met
    /\ ~evalLog["q2"][2].met
    /\ ~evalLog["q2"][3].met
    /\ fireLog["q2"] = <<evalLog["q2"][2].now>>

----------------------------------------------------------------------------
(* Claims about the view of a tick *)

(* what the scents of the suspended tick t see of its snapshot: of every   *)
(* pheromone in it, the intensity at the tick's now and whether it counts  *)
(* as live                                                                 *)
ViewOf(t) ==
    [id \in SeqRange(t.pheromones) |->
        [current_intensity |-> computeIntensity(heap[id], t.now),
         live |-> ~isEvaporated(heap[id], t.now)]]

(* a suspended tick that still has scents to evaluate *)
ScentsAhead(t) == \E pos \in (t.pos + 1)..Len(scentOrder) : scentOrder[pos] # Hole

(* C32 as stated: while a tick is suspended awaiting a delivery and has    *)
(* scents left to evaluate, no step (emit, creating or merging, evaporate, *)
(* gc, the passage of time, another tick) changes the membership or the    *)
(* intensities those scents will see.                                      *)
C32_Original ==
    [][\A t \in ticks \cap ticks' : ScentsAhead(t) => ViewOf(t)' = ViewOf(t)]_vars

----------------------------------------------------------------------------
(* Claims about the condition evaluator *)

(* the evaluation that the latest operation was *)
EvaluationOf(type) == lastOp.op = "evaluate" /\ lastOp.condition.type = type

(* the pheromones of the Map a threshold condition is about at now: its    *)
(* trail, its type or any type for "*", its tag filter, and an intensity   *)
(* at now that is not below the floor                                      *)
Considered(c, now) ==
    {id \in SeqRange(store) :
        /\ heap[id].trail = c.trail
        /\ c.signal_type # "*" => heap[id].type = c.signal_type
        /\ c.has_tags => matchTags(heap[id].tags, c.tags)
        /\ computeIntensity(heap[id], now) * TtlFloorDen >= heap[id].ttl_floor * Scale}

(* the fraction q compared with the number v *)
Holds(q, op, v) ==
    (op = ">=" /\ q.num >= v * q.den) \/ (op = ">" /\ q.num > v * q.den)
    \/ (op = "<=" /\ q.num <= v * q.den) \/ (op = "<" /\ q.num < v * q.den)
    \/ (op = "==" /\ q.num = v * q.den) \/ (op = "!=" /\ q.num # v * q.den)

(* C33: the result of a threshold condition evaluated at now has as        *)
(* matchingPheromoneIds exactly the ids, each once, of the pheromones with *)
(* the trail, the type (any for "*") and the tags of the condition that    *)
(* are not evaporated at now; its value is the aggregate of their          *)
(* intensities at now (sum; max, 0 if none; avg, 0 if none; count; any as  *)
(* 1 or 0), and met is the comparison of the value by the operator with    *)
(* the value of the condition.                                             *)
C33_Threshold ==
    EvaluationOf("threshold") =>
        LET c == lastOp.condition
            r == lastOp.result
            M == Considered(c, lastOp.now)
            n == Cardinality(M)
            sum == SumIntensity(M, lastOp.now)
        IN /\ SeqRange(r.matchingPheromoneIds) = M
           /\ Len(r.matchingPheromoneIds) = n
           /\ \A id \in SeqRange(r.matchingPheromoneIds) : ~isEvaporated(heap[id], lastOp.now)
           /\ r.value.den > 0
           /\ c.aggregation = "sum" => r.value.num = sum * r.value.den
           /\ c.aggregation = "max" =>
                 /\ n = 0 => r.value.num = 0
                 /\ n > 0 => /\ \A id \in M :
                                   computeIntensity(heap[id], lastOp.now) * r.value.den <= r.value.num
                             /\ \E id \in M :
                                   computeIntensity(heap[id], lastOp.now) * r.value.den = r.value.num
           /\ c.aggregation = "avg" =>
                 /\ n = 0 => r.value.num = 0
                 /\ n > 0 => r.value.num * n = sum * r.value.den
           /\ c.aggregation = "count" => r.value.num = n * Scale * r.value.den
           /\ c.aggregation = "any" => r.value.num = (IF n > 0 THEN Scale ELSE 0) * r.value.den
           /\ r.met <=> Holds(r.value, c.operator, c.value)

(* the average over two pheromones of different intensity was met, while a *)
(* third pheromone of the trail and the type is in the Map, evaporated     *)
C33_Witness ==
    /\ EvaluationOf("threshold")
    /\ lastOp.condition.aggregation = "avg"
    /\ lastOp.condition.signal_type = "*"
    /\ lastOp.result.met
    /\ Len(lastOp.result.matchingPheromoneIds) = 2
    /\ lastOp.result.value.num * 2 = 5 * Quarter * lastOp.result.value.den
    /\ \E id \in SeqRange(store) :
          /\ heap[id].trail = "a"
          /\ isEvaporated(heap[id], lastOp.now)

RECURSIVE Truth(_, _)
(* whether the condition c holds at now: a threshold as the evaluator      *)
(* finds it, a composite by its operator over its children                 *)
Truth(c, now) ==
    IF c.type # "composite" THEN evaluateCondition(c, store, now).met
    ELSE LET kids == c.conditions
         IN /\ kids # <<>>
            /\ \/ c.operator = "and" /\ \A i \in 1..Len(kids) : Truth(kids[i], now)
               \/ c.operator = "or" /\ \E i \in 1..Len(kids) : Truth(kids[i], now)
               \/ c.operator = "not" /\ ~Truth(kids[1], now)

RECURSIVE IdsOf(_, _)
(* the ids under the condition c at now: those a threshold matches, the    *)
(* union of those of its children for a composite                          *)
IdsOf(c, now) ==
    IF c.type # "composite" THEN SeqRange(evaluateCondition(c, store, now).matchingPheromoneIds)
    ELSE UNION {IdsOf(c.conditions[i], now) : i \in 1..Len(c.conditions)}

(* C34: the result of a composite condition, of any depth, with "not"      *)
(* over at most one child: met is "all children met" for and, "some child  *)
(* met" for or, "the child is not met" for not, and false when there are   *)
(* no children; value is the number of children that are met;              *)
(* matchingPheromoneIds holds each id of the union of the children's ids   *)
(* once.                                                                   *)
C34_Composite ==
    EvaluationOf("composite") =>
        LET c == lastOp.condition
            r == lastOp.result
            kids == c.conditions
        IN /\ r.met <=> Truth(c, lastOp.now)
           /\ kids = <<>> => ~r.met
           /\ r.value.num = Cardinality({i \in 1..Len(kids) : Truth(kids[i], lastOp.now)})
           /\ r.value.den = 1
           /\ SeqRange(r.matchingPheromoneIds) = IdsOf(c, lastOp.now)
           /\ Len(r.matchingPheromoneIds) = Cardinality(IdsOf(c, lastOp.now))

(* an "or" over a "not" of an "and" and a threshold was met by its second  *)
(* child only; both children match the same two pheromones                 *)
C34_Witness ==
    /\ EvaluationOf("composite")
    /\ lastOp.condition.operator = "or"
    /\ Len(lastOp.condition.conditions) = 2
    /\ lastOp.condition.conditions[1].type = "composite"
    /\ lastOp.condition.conditions[1].operator = "not"
    /\ Len(lastOp.condition.conditions[1].conditions) = 1
    /\ lastOp.condition.conditions[1].conditions[1].type = "composite"
    /\ lastOp.condition.conditions[1].conditions[1].operator = "and"
    /\ lastOp.result.met
    /\ lastOp.result.value.num = 1
    /\ Len(lastOp.result.matchingPheromoneIds) = 2
    /\ IdsOf(lastOp.condition.conditions[1], lastOp.now) = IdsOf(lastOp.condition.conditions[2], lastOp.now)

(* the records of the history with a timestamp of now - window_ms or later *)
Recent(now, window_ms) ==
    {i \in 1..Len(emissionHistory) : emissionHistory[i].timestamp >= now - window_ms}

(* the ways to give each of the first k steps of the sequence a record of  *)
(* the set recent that has the trail and the type of the step, no record   *)
(* to two steps; inOrder: every step a record after that of the step       *)
(* before it                                                               *)
Placements(sequence, k, recent, inOrder) ==
    {f \in [1..k -> recent] :
        /\ \A i \in 1..k : /\ emissionHistory[f[i]].trail = sequence[i].trail
                           /\ emissionHistory[f[i]].type = sequence[i].signal_type
        /\ \A i, j \in 1..k : i < j => IF inOrder THEN f[i] < f[j] ELSE f[i] # f[j]}

(* the steps of the sequence that can be given distinct records of recent  *)
(* together, at most                                                       *)
Matchable(sequence, recent) ==
    SetMax({Cardinality(S) : S \in {S \in SUBSET (1..Len(sequence)) :
                \E f \in [S -> recent] :
                    /\ \A i \in S : /\ emissionHistory[f[i]].trail = sequence[i].trail
                                    /\ emissionHistory[f[i]].type = sequence[i].signal_type
                    /\ \A i, j \in S : i # j => f[i] # f[j]}})

(* C35: a pattern condition evaluated at now looks at the records of the   *)
(* history with timestamp >= now - window_ms only.  Ordered, it is met iff *)
(* the steps occur among them as a subsequence, each step at a record      *)
(* after that of the step before; its value is the length of the longest   *)
(* beginning of the sequence that does, over the length of the sequence.   *)
(* Unordered, it is met iff every step can be given a record of its own,   *)
(* in any order; its value is the largest number of steps that can, over   *)
(* the length of the sequence.                                             *)
C35_Pattern ==
    EvaluationOf("pattern") =>
        LET c == lastOp.condition
            r == lastOp.result
            n == Len(c.sequence)
            recent == Recent(lastOp.now, c.window_ms)
            matched == IF c.ordered
                       THEN SetMax({k \in 0..n : Placements(c.sequence, k, recent, TRUE) # {}})
                       ELSE Matchable(c.sequence, recent)
        IN /\ r.met <=> Placements(c.sequence, n, recent, c.ordered) # {}
           /\ r.value.den > 0
           /\ r.value.num * n = matched * r.value.den
           /\ recent = {} => ~r.met /\ r.value.num = 0
           /\ r.matchingPheromoneIds = <<>>

(* the ordered pattern b, a is not met on a history that has a before b in *)
(* its window, where the unordered one is; a record of b older than the    *)
(* window is in the history                                                *)
C35_Witness ==
    /\ EvaluationOf("pattern")
    /\ lastOp.condition.sequence = <<PatternStep("b", "x"), PatternStep("a", "x")>>
    /\ lastOp.condition.ordered
    /\ ~lastOp.result.met
    /\ lastOp.result.value.num = 1
    /\ evaluatePattern([lastOp.condition EXCEPT !.ordered = FALSE], emissionHistory, lastOp.now).met
    /\ \E i \in 1..Len(emissionHistory) :
          /\ i \notin Recent(lastOp.now, lastOp.condition.window_ms)
          /\ emissionHistory[i].trail = "b"

(* the emit calls on the trail and of the type of the rate condition c     *)
(* (any type for "*") made at now - window_ms or later                     *)
Emitted(c, now) ==
    {i \in 1..Len(since.calls) :
        /\ since.calls[i].trail = c.trail
        /\ c.signal_type # "*" => since.calls[i].type = c.signal_type
        /\ since.calls[i].at >= now - c.window_ms}

----------------------------------------------------------------------------
(* Claims about step decay *)

(* the steps of the model dm are sorted ascending by at_ms *)
Ascending(dm) == \A i \in 1..(Len(dm.steps) - 1) : dm.steps[i].at_ms <= dm.steps[i + 1].at_ms

(* the intensity of the greatest step of p at or before max(0, now -       *)
(* last_reinforced_at), the initial intensity when there is none           *)
StepIntensity(p, now) ==
    LET elapsed == Max2(0, now - p.last_reinforced_at)
        reached == {i \in 1..Len(p.decay_model.steps) : p.decay_model.steps[i].at_ms <= elapsed}
    IN IF reached = {} THEN p.initial_intensity
       ELSE p.decay_model.steps[SetMax(reached)].intensity

(* C37 as stated: for every pheromone with a step model sorted by at_ms    *)
(* and every now, before, at and after its last reinforcement,             *)
(* computeIntensity gives the intensity of the greatest step with at_ms <= *)
(* elapsed, a step at 0 included when elapsed is 0, and the initial        *)
(* intensity only when there is no such step; sniff reports that value.    *)
C37_Original ==
    /\ \A id \in SeqRange(store) : \A now \in 0..MaxTime :
          (heap[id].decay_model.type = "step" /\ Ascending(heap[id].decay_model)) =>
              computeIntensity(heap[id], now) = StepIntensity(heap[id], now)
    /\ lastOp.op = "sniff" =>
          \A k \in 1..Len(lastOp.result.pheromones) :
              LET snap == lastOp.result.pheromones[k]
              IN (heap[snap.id].decay_model.type = "step" /\ Ascending(heap[snap.id].decay_model)) =>
                    snap.current_intensity = StepIntensity(heap[snap.id], lastOp.now)

----------------------------------------------------------------------------
(* Claims about deregistration and the lifecycle of the loop *)

(* the deliveries, to a handler or over HTTP, that the step starts for sid *)
Deliveries(sid) == Begun(sid, "handler") \cup Begun(sid, "http")

(* C38: after deregisterScent(scent_id) returns deregistered, no new       *)
(* trigger delivery (handler invocation or HTTP POST) is started for that  *)
(* scent_id until it is registered again, even if the deregistration       *)
(* happens while an evaluation tick is suspended awaiting another scent's  *)
(* delivery: the deregistration takes the scent out of the table, only a   *)
(* registration puts it back, and a step starts a delivery, or fires a     *)
(* trigger, only for a scent that is in the table.                         *)
C38_NoDeliveryAfterDeregister ==
    [][\A sid \in ScentIds :
          /\ (/\ lastOp'.op = "deregister_scent"
              /\ lastOp'.scent_id = sid
              /\ lastOp'.status = "deregistered"
              /\ lastOp' # lastOp)
                => /\ sid \notin DOMAIN scents'
                   /\ sid \notin {scentOrder'[i] : i \in 1..Len(scentOrder')}
          /\ (sid \notin DOMAIN scents /\ sid \in DOMAIN scents')
                => lastOp'.op = "register_scent" /\ lastOp'.scent_id = sid
          /\ (Deliveries(sid) # {} \/ sid \in FiredNow)
                => /\ sid \in DOMAIN scents
                   /\ lastOp'.op \in {"tick", "settled"}]_vars

(* a scent was deregistered under a tick that is suspended awaiting the    *)
(* delivery of another scent and has not yet reached its entry, while the  *)
(* condition of the scent is met                                           *)
C38_Witness ==
    /\ lastOp.op = "deregister_scent"
    /\ lastOp.status = "deregistered"
    /\ store # <<>>
    /\ \E t \in ticks :
          /\ t.awaiting # lastOp.scent_id
          /\ t.awaiting \in DOMAIN scents
          /\ \E i \in (t.pos + 1)..Len(scentOrder) : scentOrder[i] = Hole

(* at most one interval timer is set, and the field evaluationTimer holds  *)
(* it, however often start() is called                                     *)
OneTimer == [](intervals = IF evaluationTimer THEN 1 ELSE 0)

(* a new evaluation tick begins only while the loop is started *)
TicksNeedTimer == [][lastTickAt' # lastTickAt => evaluationTimer]_vars

(* a stop() on a loop that is not running, so without start() or after     *)
(* another stop(), changes nothing                                         *)
StopIsIdempotent ==
    [][(lastOp'.op = "stop" /\ lastOp.op # "stop" /\ ~evaluationTimer)
          => UNCHANGED <<clock, coreVars, trackEmissionHistory, since, httpVars, triggerHandlers,
                         scentVars, loopVars, sseVars>>]_vars

(* a trigger is dispatched only while the loop is started *)
DispatchNeedsTimer ==
    [][\A sid \in ScentIds : (sid \in FiredNow \/ Deliveries(sid) # {}) => evaluationTimer]_vars

(* C39: at most one evaluation timer is active at any time no matter how   *)
(* many times start() is called; after stop() returns no new evaluation    *)
(* tick begins and no trigger is dispatched any more until start() is      *)
(* called again; stop() without a prior start() and repeated stop() leave  *)
(* the state unchanged.                                                    *)
C39_Original == OneTimer /\ TicksNeedTimer /\ DispatchNeedsTimer /\ StopIsIdempotent

----------------------------------------------------------------------------
(* Claims about merge targets *)

(* two pheromones that a merging emit cannot tell apart *)
SameTarget(p, q) ==
    /\ p.trail = q.trail
    /\ p.type = q.type
    /\ hashPayload(p.payload) = hashPayload(q.payload)

(* C40: when every emit uses a merge strategy other than new and the decay *)
(* models are exponential, linear or immortal, the store never contains    *)
(* two non-evaporated pheromones with the same trail, type and payload     *)
(* hash, under any interleaving of emit, evaporate, gc and the passage of  *)
(* time.                                                                   *)
C40_UniqueLiveTargets ==
    \A i, j \in 1..Len(store) :
        (i < j /\ SameTarget(heap[store[i]], heap[store[j]]))
           => isEvaporated(heap[store[i]], clock) \/ isEvaporated(heap[store[j]], clock)

(* an emit merged into the live pheromone of a target that the store holds *)
(* a second time, evaporated and not yet collected, under another payload  *)
(* of the same hash                                                        *)
C40_Witness ==
    /\ lastOp.op = "emit"
    /\ lastOp.existing # 0
    /\ \E i, j \in 1..Len(store) :
          /\ i # j
          /\ store[j] = lastOp.existing
          /\ SameTarget(heap[store[i]], heap[store[j]])
          /\ heap[store[i]].payload # heap[store[j]].payload
          /\ isEvaporated(heap[store[i]], clock)
          /\ ~isEvaporated(heap[store[j]], clock)

====
